---- MODULE Spec2Model ----
(***************************************************************************)
(* Model of financial_app.py: the session state of the financial           *)
(* statements preparation app (mappings, extracted ledgers, generated      *)
(* statements, version archive) and the handlers that change it.           *)
(*                                                                         *)
(* Strings the code takes apart (mapping options, category codes) are      *)
(* sequences of lexemes: a word, a blank " ", the option separator " - ",  *)
(* a statement prefix "BS_" / "PL_" or the underscore "_".  str + str is   *)
(* \o, `kw in s` is Contains, s.startswith(p) is StartsWith,               *)
(* s.split(" - ")[0] is BeforeDash, "".join(s.split()) is JoinSplit and    *)
(* s.replace(old, "") is Remove.  Ledger names are only compared and used  *)
(* as dictionary keys, so they stay atomic strings.  Balances are floats   *)
(* (see Amounts).  Timestamps (datetime.now()) are not modelled.           *)
(*                                                                         *)
(* Streamlit executes the script from its first line on every interaction. *)
(* An action of this model is one such script run: the module-level        *)
(* statements, which load the saved mappings into the session, then the    *)
(* code of the selected tab with the widget of the interaction changed     *)
(* or the button of the interaction pressed.  A state is the session       *)
(* between two interactions.  Widgets keep what they show from one run to  *)
(* the next as long as every run draws them.                               *)
(***************************************************************************)
EXTENDS Integers, Sequences, FiniteSets, TLC

VARIABLES
    mapped_accounts,            \* st.session_state.mapped_accounts: name -> option
    sub_schedule_mapping,       \* st.session_state.sub_schedule_mapping: name -> sub option
    tally_data,                 \* st.session_state.tally_data: None or the parsed export
    new_ledgers,                \* st.session_state.new_ledgers
    versions,                   \* st.session_state.versions
    current_version,            \* st.session_state.current_version
    financial_statements,       \* st.session_state.financial_statements
    manual_ledgers,             \* st.session_state.manual_ledgers (<<>>: not created yet)
    account_mappings_json,      \* the file account_mappings.json
    sub_schedule_mappings_json, \* the file sub_schedule_mappings.json
    selected_tab,               \* the navigation radio
    pasted_data,                \* the text area of the upload tab: None or what it holds
    mapping_widgets,            \* the select boxes f"mapping_{name}" drawn by the last run
    sub_mapping_widgets,        \* the select boxes f"sub_mapping_{name}" drawn by the last run
    ui_msg,                     \* what the last script run showed: st.success/warning/error
    last,                       \* the interaction the last script run handled
    steps                       \* interactions so far

vars == << mapped_accounts, sub_schedule_mapping, tally_data, new_ledgers, versions,
           current_version, financial_statements, manual_ledgers,
           account_mappings_json, sub_schedule_mappings_json, selected_tab, pasted_data,
           mapping_widgets, sub_mapping_widgets, ui_msg, last, steps >>

----------------------------------------------------------------------------
(* Python values *)

None == [none |-> TRUE]

EmptyDict == << >>

\* d[k] = v on a dict
DictSet(d, k, v) == [x \in (DOMAIN d) \cup {k} |-> IF x = k THEN v ELSE d[x]]

Min(a, b) == IF a <= b THEN a ELSE b

----------------------------------------------------------------------------
(* String operations on lexeme sequences *)

\* s.startswith(p)
StartsWith(s, p) == Len(s) >= Len(p) /\ SubSeq(s, 1, Len(p)) = p

\* kw in s
Contains(s, kw) ==
    \E i \in 1..(Len(s) - Len(kw) + 1) : SubSeq(s, i, i + Len(kw) - 1) = kw

\* "".join(s.split()): the string without its whitespace
JoinSplit(s) == SelectSeq(s, LAMBDA t : t # " ")

\* the positions of " - " in s
DashPositions(s) == {i \in 1..Len(s) : s[i] = " - "}

\* " - " in s
HasDash(s) == DashPositions(s) # {}

\* s.split(" - ")[0]
BeforeDash(s) ==
    IF HasDash(s)
    THEN SubSeq(s, 1, (CHOOSE i \in DashPositions(s) : \A j \in DashPositions(s) : i <= j) - 1)
    ELSE s

\* s.split(" - ")[1], for a string that holds " - "
AfterDash(s) ==
    LET first == CHOOSE i \in DashPositions(s) : \A j \in DashPositions(s) : i <= j
        later == {j \in DashPositions(s) : j > first}
        stop  == IF later = {} THEN Len(s) + 1
                 ELSE CHOOSE i \in later : \A j \in later : i <= j
    IN  SubSeq(s, first + 1, stop - 1)

\* s.replace(old, ""): every occurrence of old removed, left to right
RECURSIVE Remove(_, _)
Remove(s, old) ==
    IF s = << >> \/ old = << >> THEN s
    ELSE IF StartsWith(s, old) THEN Remove(SubSeq(s, Len(old) + 1, Len(s)), old)
    ELSE << Head(s) >> \o Remove(Tail(s), old)

----------------------------------------------------------------------------
(* The taxonomy *)


----------------------------------------------------------------------------
(* Amounts.  Balances are floats (float(amount_str)) and the totals are sums and
   products of floats: IEEE 754 binary64, rounded to nearest, ties to even.
   An amount is << sign, exponent, high, low >>: 0 is << 0, 0, 0, 0 >>, and
   otherwise sign is 1 or -1 and the amount is
       sign * (high * 2^26 + low) * 2^(exponent - 52)
   with 2^26 <= high < 2^27 and 0 <= low < 2^26 (the 53-bit significand in two
   halves).  A Python int in a total is the float of the same value, to which it
   is equal; the amounts of a session are far from the overflow and underflow
   thresholds, so infinities, NaN and subnormals do not arise. *)

\* 2^n, for n in 0..30
Pow2(n) ==
    << 1, 2, 4, 8, 16, 32, 64, 128, 256, 512, 1024, 2048, 4096, 8192, 16384, 32768,
       65536, 131072, 262144, 524288, 1048576, 2097152, 4194304, 8388608, 16777216,
       33554432, 67108864, 134217728, 268435456, 536870912, 1073741824 >>[n + 1]

\* 2^26: one half of a significand
Half == 67108864

\* 0.0
Zero == << 0, 0, 0, 0 >>

\* a significand with extra low bits, shifted right by d; sticky tells that a bit
\* that is 1 was shifted out, now or before
RECURSIVE ShiftRight(_, _, _, _)
ShiftRight(high, low, sticky, d) ==
    IF d = 0 THEN [high |-> high, low |-> low, sticky |-> sticky]
    ELSE IF d >= 26
    THEN ShiftRight(high \div Half, high % Half, sticky \/ low # 0, d - 26)
    ELSE [high   |-> high \div Pow2(d),
          low    |-> (low \div Pow2(d)) + (high % Pow2(d)) * Pow2(26 - d),
          sticky |-> sticky \/ low % Pow2(d) # 0]

\* round to nearest, ties to even: the 56-bit value high * 2^26 + low, with
\* 2^29 <= high < 2^30, holds the significand followed by three more bits
Round(sign, exponent, high, low, sticky) ==
    LET rest == ((low % 8) \div 2) * 2 + (IF sticky \/ low % 2 = 1 THEN 1 ELSE 0)
        lo   == (low \div 8) + (high % 8) * Pow2(23)
        hi   == high \div 8
        up   == rest > 4 \/ (rest = 4 /\ lo % 2 = 1)
    IN  IF ~up THEN << sign, exponent, hi, lo >>
        ELSE IF lo + 1 < Half THEN << sign, exponent, hi, lo + 1 >>
        ELSE IF hi + 1 < 2 * Half THEN << sign, exponent, hi + 1, 0 >>
        ELSE << sign, exponent + 1, Half, 0 >>

\* the number of bits of a digit of 13 bits
BitLength(digit) ==
    CHOOSE n \in 0..13 : digit < Pow2(n) /\ (n = 0 \/ digit >= Pow2(n - 1))

\* the float nearest to a number given in digits of 13 bits, the lowest first: the
\* number is the digits' value times 2^exponent, and more when sticky.  The first
\* 56 bits are kept and rounded
FromDigits(sign, digits, exponent, sticky) ==
    LET p    == << 0, 0, 0, 0, 0 >> \o digits \o << 0 >>
        tops == {k \in 1..Len(p) : p[k] # 0}
    IN  IF tops = {} THEN Zero
        ELSE
          LET top  == CHOOSE k \in tops : \A j \in tops : j <= k
              bits == 13 * (top - 1) + BitLength(p[top])
              a    == (bits - 56) \div 13
              b    == (bits - 56) % 13
              w    == [k \in 1..5 |->
                         (p[k + a] \div Pow2(b)) + (p[k + a + 1] % Pow2(b)) * Pow2(13 - b)]
          IN  Round(sign, exponent - 65 + bits - 1,
                    w[3] + w[4] * 8192 + w[5] * Half, w[1] + w[2] * 8192,
                    \/ sticky
                    \/ \E j \in 1..a : p[j] # 0
                    \/ p[a + 1] % Pow2(b) # 0)

\* the float nearest to (high * 2^26 + low) * 2^(exponent - 55), and more when
\* sticky, for high < 2^31 and low < 2^26
Normalize(sign, exponent, high, low, sticky) ==
    FromDigits(sign,
               << low % 8192, low \div 8192,
                  high % 8192, (high \div 8192) % 8192, high \div Half >>,
               exponent - 55, sticky)

\* |a| >= |b|, for amounts that are not 0
AtLeast(a, b) ==
    \/ a[2] > b[2]
    \/ a[2] = b[2] /\ a[3] > b[3]
    \/ a[2] = b[2] /\ a[3] = b[3] /\ a[4] >= b[4]

\* a + b, for |a| >= |b| > 0: b is shifted to the exponent of a
PlusAligned(a, b) ==
    LET ah == a[3] * 8 + (a[4] \div Pow2(23))
        al == (a[4] % Pow2(23)) * 8
        d  == IF a[2] - b[2] > 60 THEN 60 ELSE a[2] - b[2]
        bs == ShiftRight(b[3] * 8 + (b[4] \div Pow2(23)), (b[4] % Pow2(23)) * 8, FALSE, d)
        borrow == IF bs.sticky THEN 1 ELSE 0
        high == IF a[1] = b[1] THEN ah + bs.high + ((al + bs.low) \div Half)
                ELSE IF al - bs.low - borrow >= 0 THEN ah - bs.high
                ELSE ah - bs.high - 1
        low  == IF a[1] = b[1] THEN (al + bs.low) % Half
                ELSE IF al - bs.low - borrow >= 0 THEN al - bs.low - borrow
                ELSE al - bs.low - borrow + Half
    IN  Normalize(a[1], a[2], high, low, bs.sticky)

\* a + b on floats
Plus(a, b) ==
    IF a = Zero THEN b
    ELSE IF b = Zero THEN a
    ELSE PlusAligned(IF AtLeast(a, b) THEN a ELSE b, IF AtLeast(a, b) THEN b ELSE a)

\* the significand in five digits of 13 bits, the lowest first
Digits13(a) ==
    << a[4] % 8192, a[4] \div 8192, a[3] % 8192, (a[3] \div 8192) % 8192,
       a[3] \div Half >>

\* the digits of a number whose k-th digit, not yet below 2^13, is column[k]
RECURSIVE Carried(_, _)
Carried(column, carry) ==
    IF column = << >> THEN IF carry = 0 THEN << >> ELSE << carry >>
    ELSE << (Head(column) + carry) % 8192 >>
             \o Carried(Tail(column), (Head(column) + carry) \div 8192)

\* a * b on floats: the product of the significands, digit by digit
Times(a, b) ==
    IF a = Zero \/ b = Zero THEN Zero
    ELSE
      LET x == Digits13(a)
          y == Digits13(b)
          column == [k \in 1..9 |->
                        LET pairs == {i \in 1..5 : k + 1 - i \in 1..5}
                            RECURSIVE Sum(_)
                            Sum(s) == IF s = {} THEN 0
                                      ELSE LET i == CHOOSE i \in s : TRUE
                                           IN  x[i] * y[k + 1 - i] + Sum(s \ {i})
                        IN  Sum(pairs)]
      IN  FromDigits(a[1] * b[1], Carried(column, 0), a[2] + b[2] - 104, FALSE)

\* the digits of 13 bits, the highest first, of the fraction remainder / divisor,
\* followed by what remains to be divided
RECURSIVE FractionDigits(_, _, _)
FractionDigits(remainder, divisor, n) ==
    IF n = 0 THEN << remainder >>
    ELSE << (remainder * 8192) \div divisor >>
             \o FractionDigits((remainder * 8192) % divisor, divisor, n - 1)

\* the float nearest to n / divisor, for integers 0 <= n and 0 < divisor < 2^18:
\* what float() makes of a decimal number with digits n and divisor 10^(places)
Quotient(n, divisor) ==
    LET whole    == n \div divisor
        fraction == FractionDigits(n % divisor, divisor, 6)
    IN  FromDigits(1,
                   << fraction[6], fraction[5], fraction[4], fraction[3], fraction[2],
                      fraction[1], whole % 8192, (whole \div 8192) % 8192,
                      whole \div Half >>,
                   -78, fraction[7] # 0)

\* -a
Minus(a) == << 0 - a[1], a[2], a[3], a[4] >>

\* the float of the integer n, for |n| < 2^31: the bits of |n|, the highest first
Float(n) ==
    LET m    == IF n < 0 THEN 0 - n ELSE n
        bits == CHOOSE k \in 1..31 : m >= Pow2(k - 1) /\ (k = 31 \/ m < Pow2(k))
    IN  IF n = 0 THEN Zero
        ELSE IF bits <= 27
        THEN << IF n < 0 THEN -1 ELSE 1, bits - 1, m * Pow2(27 - bits), 0 >>
        ELSE << IF n < 0 THEN -1 ELSE 1, bits - 1, m \div Pow2(bits - 27),
                (m % Pow2(bits - 27)) * Pow2(53 - bits) >>
\* FINANCIAL_STATEMENT_HIERARCHY flattened in its declared (insertion) order:
\* one entry per category, with the statement and category type it stands under
FINANCIAL_STATEMENT_HIERARCHY ==
  <<
    [statement |-> "Balance Sheet", category_type |-> "Assets",
     category |-> <<"Fixed", " ", "Assets">>,
     sub_categories |-> <<
            <<"Land", " ", "and", " ", "Buildings">>,
            <<"Plant", " ", "and", " ", "Machinery">>,
            <<"Furniture", " ", "and", " ", "Fixtures">>,
            <<"Vehicles">>,
            <<"Computer", " ", "Equipment">>,
            <<"Other", " ", "Fixed", " ", "Assets">> >>],
    [statement |-> "Balance Sheet", category_type |-> "Assets",
     category |-> <<"Investments">>,
     sub_categories |-> <<
            <<"Long-term", " ", "Investments">>,
            <<"Short-term", " ", "Investments">>,
            <<"Investment", " ", "in", " ", "Properties">>,
            <<"Other", " ", "Investments">> >>],
    [statement |-> "Balance Sheet", category_type |-> "Assets",
     category |-> <<"Current", " ", "Assets">>,
     sub_categories |-> <<
            <<"Inventories">>,
            <<"Sundry", " ", "Debtors">>,
            <<"Cash", " ", "and", " ", "Bank", " ", "Balances">>,
            <<"Loans", " ", "and", " ", "Advances">>,
            <<"Deposits">>,
            <<"Other", " ", "Current", " ", "Assets">> >>],
    [statement |-> "Balance Sheet", category_type |-> "Liabilities",
     category |-> <<"Capital", " ", "Account">>,
     sub_categories |-> <<
            <<"Owner's", " ", "Capital">>,
            <<"Partner's", " ", "Capital">>,
            <<"Drawings">>,
            <<"Other", " ", "Capital", " ", "Items">> >>],
    [statement |-> "Balance Sheet", category_type |-> "Liabilities",
     category |-> <<"Reserves", " ", "and", " ", "Surplus">>,
     sub_categories |-> <<
            <<"General", " ", "Reserve">>,
            <<"Revaluation", " ", "Reserve">>,
            <<"Retained", " ", "Earnings">>,
            <<"Other", " ", "Reserves">> >>],
    [statement |-> "Balance Sheet", category_type |-> "Liabilities",
     category |-> <<"Long", " ", "Term", " ", "Loans">>,
     sub_categories |-> <<
            <<"Secured", " ", "Loans">>,
            <<"Unsecured", " ", "Loans">>,
            <<"Term", " ", "Loans">>,
            <<"Other", " ", "Long-term", " ", "Loans">> >>],
    [statement |-> "Balance Sheet", category_type |-> "Liabilities",
     category |-> <<"Current", " ", "Liabilities">>,
     sub_categories |-> <<
            <<"Sundry", " ", "Creditors">>,
            <<"Outstanding", " ", "Expenses">>,
            <<"Statutory", " ", "Liabilities">>,
            <<"Advances", " ", "from", " ", "Customers">>,
            <<"Other", " ", "Current", " ", "Liabilities">> >>],
    [statement |-> "Profit & Loss", category_type |-> "Income",
     category |-> <<"Revenue", " ", "from", " ", "Operations">>,
     sub_categories |-> <<
            <<"Domestic", " ", "Sales">>,
            <<"Export", " ", "Sales">>,
            <<"Service", " ", "Income">>,
            <<"Other", " ", "Operational", " ", "Income">> >>],
    [statement |-> "Profit & Loss", category_type |-> "Income",
     category |-> <<"Other", " ", "Income">>,
     sub_categories |-> <<
            <<"Interest", " ", "Income">>,
            <<"Dividend", " ", "Income">>,
            <<"Rental", " ", "Income">>,
            <<"Miscellaneous", " ", "Income">> >>],
    [statement |-> "Profit & Loss", category_type |-> "Expenses",
     category |-> <<"Cost", " ", "of", " ", "Goods", " ", "Sold">>,
     sub_categories |-> <<
            <<"Raw", " ", "Material", " ", "Consumed">>,
            <<"Direct", " ", "Expenses">>,
            <<"Purchase", " ", "of", " ", "Stock-in-Trade">>,
            <<"Changes", " ", "in", " ", "Inventories">> >>],
    [statement |-> "Profit & Loss", category_type |-> "Expenses",
     category |-> <<"Employee", " ", "Benefits">>,
     sub_categories |-> <<
            <<"Salaries", " ", "and", " ", "Wages">>,
            <<"Bonus", " ", "and", " ", "Incentives">>,
            <<"Staff", " ", "Welfare", " ", "Expenses">>,
            <<"Other", " ", "Employee", " ", "Costs">> >>],
    [statement |-> "Profit & Loss", category_type |-> "Expenses",
     category |-> <<"Finance", " ", "Cost">>,
     sub_categories |-> <<
            <<"Interest", " ", "Expenses">>,
            <<"Bank", " ", "Charges">>,
            <<"Other", " ", "Financial", " ", "Charges">> >>],
    [statement |-> "Profit & Loss", category_type |-> "Expenses",
     category |-> <<"Depreciation">>,
     sub_categories |-> <<
            <<"Depreciation", " ", "on", " ", "Fixed", " ", "Assets">>,
            <<"Amortization">>,
            <<"Other", " ", "Depreciation">> >>],
    [statement |-> "Profit & Loss", category_type |-> "Expenses",
     category |-> <<"Other", " ", "Expenses">>,
     sub_categories |-> <<
            <<"Administrative", " ", "Expenses">>,
            <<"Selling", " ", "and", " ", "Distribution", " ", "Expenses">>,
            <<"Rent", " ", "and", " ", "Utilities">>,
            <<"Repairs", " ", "and", " ", "Maintenance">>,
            <<"Travel", " ", "and", " ", "Conveyance">>,
            <<"Legal", " ", "and", " ", "Professional", " ", "Fees">>,
            <<"Insurance">>,
            <<"Miscellaneous", " ", "Expenses">> >>]
  >>

SelectMapping == << "Select mapping..." >>

SelectSubCategory == << "Select sub-category..." >>

\* prefix = "BS_" if statement == "Balance Sheet" else "PL_"
StatementPrefix(statement) == IF statement = "Balance Sheet" THEN << "BS_" >> ELSE << "PL_" >>

\* a code that is the statement prefix alone
PrefixCode(entry) == StatementPrefix(entry.statement)

\* code = prefix + "".join(category.split())
CategoryCode(entry) == StatementPrefix(entry.statement) \o JoinSplit(entry.category)

\* options whose codes keep the whitespace of the category
SpacedCodeOptions ==
    << SelectMapping >> \o
    [i \in 1..Len(FINANCIAL_STATEMENT_HIERARCHY) |->
        StatementPrefix(FINANCIAL_STATEMENT_HIERARCHY[i].statement)
            \o FINANCIAL_STATEMENT_HIERARCHY[i].category \o << " - " >>
            \o FINANCIAL_STATEMENT_HIERARCHY[i].category]

\* the options of the main category dropdown
create_mapping_options ==
    << SelectMapping >> \o
    [i \in 1..Len(FINANCIAL_STATEMENT_HIERARCHY) |->
        CategoryCode(FINANCIAL_STATEMENT_HIERARCHY[i]) \o << " - " >>
            \o FINANCIAL_STATEMENT_HIERARCHY[i].category]

\* sub-category options for whatever the input is: those of the first category when
\* the input names none
SubOptionsOfFirst(main_category) ==
    LET category_name == IF HasDash(main_category) THEN AfterDash(main_category)
                         ELSE main_category
        found == {i \in 1..Len(FINANCIAL_STATEMENT_HIERARCHY) :
                      FINANCIAL_STATEMENT_HIERARCHY[i].category = category_name}
        e == FINANCIAL_STATEMENT_HIERARCHY[IF found = {} THEN 1 ELSE CHOOSE i \in found : TRUE]
    IN  << SelectSubCategory >> \o
        [k \in 1..Len(e.sub_categories) |->
            CategoryCode(e) \o << "_" >> \o JoinSplit(e.sub_categories[k])
                \o << " - " >> \o e.sub_categories[k]]

\* the options of the sub-category dropdown of a main category option
create_sub_category_options(main_category) ==
    IF main_category = << >> \/ main_category = SelectMapping
    THEN << SelectSubCategory >>
    ELSE
      LET category_name == IF HasDash(main_category) THEN AfterDash(main_category)
                           ELSE main_category
          found == {i \in 1..Len(FINANCIAL_STATEMENT_HIERARCHY) :
                        FINANCIAL_STATEMENT_HIERARCHY[i].category = category_name}
      IN  IF found = {} THEN << SelectSubCategory >>
          ELSE
            LET e == FINANCIAL_STATEMENT_HIERARCHY[CHOOSE i \in found : \A j \in found : i <= j]
                main_code == StatementPrefix(e.statement) \o JoinSplit(category_name)
            IN  << SelectSubCategory >> \o
                [k \in 1..Len(e.sub_categories) |->
                    main_code \o << "_" >> \o JoinSplit(e.sub_categories[k])
                        \o << " - " >> \o e.sub_categories[k]]

----------------------------------------------------------------------------
(* generate_financial_statements *)

\* one category of the statement tree: {'total': 0, 'sub_categories': {}}
EmptyCategory == [total |-> Zero, sub_categories |-> EmptyDict]

\* the statement tree as initialised, before the sub-schedules are filled in
InitialStatements ==
    [balance_sheet |->
        [assets |-> [fixed_assets |-> EmptyCategory,
                     investments |-> EmptyCategory,
                     current_assets |-> EmptyCategory],
         liabilities |-> [capital |-> EmptyCategory,
                          reserves |-> EmptyCategory,
                          long_term_loans |-> EmptyCategory,
                          current_liabilities |-> EmptyCategory]],
     profit_and_loss |->
        [income |-> [revenue |-> EmptyCategory,
                     other_income |-> EmptyCategory],
         expenses |-> [cogs |-> EmptyCategory,
                       employee_benefits |-> EmptyCategory,
                       finance_costs |-> EmptyCategory,
                       depreciation |-> EmptyCategory,
                       other_expenses |-> EmptyCategory]]]

\* the keys "".join(sub_category.split()) of one category's sub-categories
SubKeys(entry) == {JoinSplit(entry.sub_categories[k]) : k \in 1..Len(entry.sub_categories)}

\* the sub-category of an entry that sub_key was derived from
SubCategoryOf(entry, sub_key) ==
    entry.sub_categories[CHOOSE k \in 1..Len(entry.sub_categories) :
                            JoinSplit(entry.sub_categories[k]) = sub_key]

\* sub_schedules as initialised from the hierarchy: every sub-category with amount 0
\* and no ledgers
InitialSubSchedules ==
    LET entryOf(key) == FINANCIAL_STATEMENT_HIERARCHY[
                            CHOOSE i \in 1..Len(FINANCIAL_STATEMENT_HIERARCHY) :
                                CategoryCode(FINANCIAL_STATEMENT_HIERARCHY[i]) = key]
    IN  [category_key \in {CategoryCode(FINANCIAL_STATEMENT_HIERARCHY[i]) :
                                i \in 1..Len(FINANCIAL_STATEMENT_HIERARCHY)} |->
            [name  |-> entryOf(category_key).category,
             items |-> [sub_key \in SubKeys(entryOf(category_key)) |->
                           [name    |-> SubCategoryOf(entryOf(category_key), sub_key),
                            amount  |-> Zero,
                            ledgers |-> << >>]]]]

\* the if/elif chain for codes that start with BS_: keyword, where the total is, and
\* the category_key the branch assigns
BalanceSheetBranches ==
    << [keyword |-> << "Fixed", "Assets" >>, statement |-> "balance_sheet",
        side |-> "assets", category |-> "fixed_assets",
        category_key |-> << "BS_", "Fixed", "Assets" >>],
       [keyword |-> << "Investments" >>, statement |-> "balance_sheet",
        side |-> "assets", category |-> "investments",
        category_key |-> << "BS_", "Investments" >>],
       [keyword |-> << "Current", "Assets" >>, statement |-> "balance_sheet",
        side |-> "assets", category |-> "current_assets",
        category_key |-> << "BS_", "Current", "Assets" >>],
       [keyword |-> << "Capital" >>, statement |-> "balance_sheet",
        side |-> "liabilities", category |-> "capital",
        category_key |-> << "BS_", "Capital", "Account" >>],
       [keyword |-> << "Reserves" >>, statement |-> "balance_sheet",
        side |-> "liabilities", category |-> "reserves",
        category_key |-> << "BS_", "Reserves", "and", "Surplus" >>],
       [keyword |-> << "Long", "Term", "Loans" >>, statement |-> "balance_sheet",
        side |-> "liabilities", category |-> "long_term_loans",
        category_key |-> << "BS_", "Long", "Term", "Loans" >>],
       [keyword |-> << "Current", "Liabilities" >>, statement |-> "balance_sheet",
        side |-> "liabilities", category |-> "current_liabilities",
        category_key |-> << "BS_", "Current", "Liabilities" >>] >>

\* the if/elif chain for codes that start with PL_
ProfitAndLossBranches ==
    << [keyword |-> << "Revenue" >>, statement |-> "profit_and_loss",
        side |-> "income", category |-> "revenue",
        category_key |-> << "PL_", "Revenue", "from", "Operations" >>],
       [keyword |-> << "Other", "Income" >>, statement |-> "profit_and_loss",
        side |-> "income", category |-> "other_income",
        category_key |-> << "PL_", "Other", "Income" >>],
       [keyword |-> << "COGS" >>, statement |-> "profit_and_loss",
        side |-> "expenses", category |-> "cogs",
        category_key |-> << "PL_", "Cost", "of", "Goods", "Sold" >>],
       [keyword |-> << "Employee", "Benefits" >>, statement |-> "profit_and_loss",
        side |-> "expenses", category |-> "employee_benefits",
        category_key |-> << "PL_", "Employee", "Benefits" >>],
       [keyword |-> << "Finance", "Cost" >>, statement |-> "profit_and_loss",
        side |-> "expenses", category |-> "finance_costs",
        category_key |-> << "PL_", "Finance", "Cost" >>],
       [keyword |-> << "Depreciation" >>, statement |-> "profit_and_loss",
        side |-> "expenses", category |-> "depreciation",
        category_key |-> << "PL_", "Depreciation" >>],
       [keyword |-> << "Other", "Expenses" >>, statement |-> "profit_and_loss",
        side |-> "expenses", category |-> "other_expenses",
        category_key |-> << "PL_", "Other", "Expenses" >>] >>

\* the last branch of a chain whose keyword is in category_code, or None
LastBranch(branches, category_code) ==
    LET hits == {i \in 1..Len(branches) : Contains(category_code, branches[i].keyword)}
    IN  IF hits = {} THEN None
        ELSE branches[CHOOSE i \in hits : \A j \in hits : i >= j]

\* the first branch of a chain whose keyword is in category_code, or None
FirstBranch(branches, category_code) ==
    LET hits == {i \in 1..Len(branches) : Contains(category_code, branches[i].keyword)}
    IN  IF hits = {} THEN None
        ELSE branches[CHOOSE i \in hits : \A j \in hits : i <= j]

\* the branch the code takes for category_code, or None when no branch is taken
TakenBranch(category_code) ==
    IF StartsWith(category_code, << "BS_" >>)
    THEN FirstBranch(BalanceSheetBranches, category_code)
    ELSE IF StartsWith(category_code, << "PL_" >>)
    THEN FirstBranch(ProfitAndLossBranches, category_code)
    ELSE None

\* a contributing list that takes the new entry at its head
PrependEntry(ledgers, entry) == << entry >> \o ledgers

\* ...['ledgers'].append({'name': ledger_name, 'balance': balance})
AppendEntry(ledgers, entry) == Append(ledgers, entry)

\* a slot that is created empty
EmptySlot(sub_name, entry) == [name |-> sub_name, amount |-> Zero, ledgers |-> << >>]

\* "If sub-category not found, create it": the slot holds the ledger that created it
CreatedSlot(sub_name, entry) ==
    [name |-> sub_name, amount |-> entry.balance, ledgers |-> << entry >>]

\* an update that adds the balance to the amount of a slot that is there and leaves
\* its contributing list as it is
AddWithoutEntry(sub_schedules, category_key, sub_mapping, ledger) ==
    LET sub_code     == BeforeDash(sub_mapping)
        sub_category == Remove(sub_code, category_key \o << "_" >>)
        items        == sub_schedules[category_key].items
        entry        == [name |-> ledger.name, balance |-> ledger.balance]
    IN  IF sub_category \in DOMAIN items
        THEN [sub_schedules EXCEPT ![category_key].items[sub_category].amount =
                 Plus(@, ledger.balance)]
        ELSE [sub_schedules EXCEPT ![category_key].items =
                 DictSet(items, sub_category,
                         CreatedSlot(IF HasDash(sub_mapping) THEN AfterDash(sub_mapping)
                                     ELSE sub_category,
                                     entry))]

\* "Update sub-category if selected", for a category_key that is a key of
\* sub_schedules: the slot is added to, or created
UpdateSubCategory(sub_schedules, category_key, sub_mapping, ledger) ==
    LET sub_code     == BeforeDash(sub_mapping)
        sub_category == Remove(sub_code, category_key \o << "_" >>)
        items        == sub_schedules[category_key].items
        entry        == [name |-> ledger.name, balance |-> ledger.balance]
    IN  IF sub_category \in DOMAIN items
        THEN [sub_schedules EXCEPT ![category_key].items[sub_category] =
                 [@ EXCEPT !.amount = Plus(@, ledger.balance),
                           !.ledgers = AppendEntry(@, entry)]]
        ELSE [sub_schedules EXCEPT ![category_key].items =
                 DictSet(items, sub_category,
                         CreatedSlot(IF HasDash(sub_mapping) THEN AfterDash(sub_mapping)
                                     ELSE sub_category,
                                     entry))]

\* a loop that passes over the ledgers without a mapping only
SkippedWhenUnmapped(ledger, mapped) == ledger.name \notin DOMAIN mapped

\* the two "continue" of the loop: the ledger has no mapping, or its mapping is
\* "Select mapping..."
Skipped(ledger, mapped) ==
    \/ ledger.name \notin DOMAIN mapped
    \/ mapped[ledger.name] = SelectMapping

\* a total that is set to the balance
SetToBalance(total, balance) == balance

\* ...['total'] += balance
AddBalance(total, balance) == Plus(total, balance)

\* one pass of the loop over the ledgers.  run holds the function's locals: the
\* statement tree, the sub-schedules and category_key, which a pass that takes no
\* branch of the chain leaves as the pass before left it
ProcessLedger(run, ledger, mapped, sub_mapped) ==
    IF Skipped(ledger, mapped) THEN run
    ELSE
      LET main_mapping  == mapped[ledger.name]
          sub_mapping   == IF ledger.name \in DOMAIN sub_mapped
                           THEN sub_mapped[ledger.name] ELSE SelectSubCategory
          category_code == BeforeDash(main_mapping)
          branch        == TakenBranch(category_code)
          statements    == IF branch = None THEN run.statements
                           ELSE [run.statements EXCEPT
                                    ![branch.statement][branch.side][branch.category].total =
                                        AddBalance(@, ledger.balance)]
          category_key  == IF branch = None THEN run.category_key
                           ELSE branch.category_key
      IN  IF sub_mapping # SelectSubCategory /\ category_key \in DOMAIN run.sub_schedules
          THEN [statements    |-> statements,
                category_key  |-> category_key,
                sub_schedules |-> UpdateSubCategory(run.sub_schedules, category_key,
                                                    sub_mapping, ledger)]
          ELSE [run EXCEPT !.statements = statements, !.category_key = category_key]

\* the loop over st.session_state.tally_data['ledgers'], in order
RECURSIVE ProcessLedgers(_, _, _, _)
ProcessLedgers(run, ledgers, mapped, sub_mapped) ==
    IF ledgers = << >> THEN run
    ELSE ProcessLedgers(ProcessLedger(run, Head(ledgers), mapped, sub_mapped),
                        Tail(ledgers), mapped, sub_mapped)

\* the demonstration balance sheet put in place of the computed one
SampleBalanceSheet ==
    [assets |-> [fixed_assets |-> [total |-> Float(800000),
                                   sub_categories |-> ("land_and_buildings" :> Float(400000) @@ "plant_and_machinery" :> Float(200000) @@ "other_fixed_assets" :> Float(200000))],
                 investments |-> [total |-> Float(300000),
                                  sub_categories |-> ("long_term_investments" :> Float(200000) @@ "short_term_investments" :> Float(100000))],
                 current_assets |-> [total |-> Float(700000),
                                     sub_categories |-> ("inventory" :> Float(300000) @@ "cash_and_bank" :> Float(400000))]],
     liabilities |-> [capital |-> [total |-> Float(1000000),
                                   sub_categories |-> ("owner_capital" :> Float(1000000))],
                      reserves |-> [total |-> Float(500000),
                                    sub_categories |-> ("general_reserve" :> Float(500000))],
                      long_term_loans |-> [total |-> Float(200000),
                                           sub_categories |-> ("secured_loans" :> Float(200000))],
                      current_liabilities |-> [total |-> Float(100000),
                                               sub_categories |-> ("sundry_creditors" :> Float(100000))]]]

\* the demonstration profit and loss statement
SampleProfitAndLoss ==
    [income |-> [revenue |-> [total |-> Float(2000000),
                              sub_categories |-> ("domestic_sales" :> Float(1500000) @@ "export_sales" :> Float(500000))],
                 other_income |-> [total |-> Float(100000),
                                   sub_categories |-> ("interest_income" :> Float(50000) @@ "misc_income" :> Float(50000))]],
     expenses |-> [cogs |-> [total |-> Float(1000000),
                             sub_categories |-> ("raw_materials" :> Float(800000) @@ "direct_expenses" :> Float(200000))],
                   employee_benefits |-> [total |-> Float(500000),
                                          sub_categories |-> ("salaries" :> Float(400000) @@ "staff_welfare" :> Float(100000))],
                   finance_costs |-> [total |-> Float(100000),
                                      sub_categories |-> ("interest_expense" :> Float(80000) @@ "bank_charges" :> Float(20000))],
                   depreciation |-> [total |-> Float(200000),
                                     sub_categories |-> ("depreciation_fixed_assets" :> Float(200000))],
                   other_expenses |-> [total |-> Float(300000),
                                       sub_categories |-> ("rent" :> Float(100000) @@ "utilities" :> Float(100000) @@ "misc_expenses" :> Float(100000))]]]
\* "Populate sub-schedules with sample data": the assignments
\* category_data['items'][item]['amount'] = amount, in the order they run
SampleAmounts ==
    << [category_key |-> << "BS_", "Fixed", "Assets" >>,
        item |-> << "Land", "and", "Buildings" >>, amount |-> Float(400000)],
       [category_key |-> << "BS_", "Fixed", "Assets" >>,
        item |-> << "Plant", "and", "Machinery" >>, amount |-> Float(200000)],
       [category_key |-> << "BS_", "Fixed", "Assets" >>,
        item |-> << "Other", "Fixed", "Assets" >>, amount |-> Float(200000)],
       [category_key |-> << "BS_", "Investments" >>,
        item |-> << "Longterm", "Investments" >>, amount |-> Float(200000)],
       [category_key |-> << "BS_", "Investments" >>,
        item |-> << "Shortterm", "Investments" >>, amount |-> Float(100000)] >>

\* the assignments done one after the other on sub_schedules; an item that is no key
\* of its category's items raises KeyError, which ends the function
RECURSIVE SampleSubSchedules(_, _)
SampleSubSchedules(sub_schedules, assignments) ==
    IF assignments = << >> THEN [raised |-> FALSE, sub_schedules |-> sub_schedules]
    ELSE LET a == Head(assignments)
         IN  IF a.item \notin DOMAIN sub_schedules[a.category_key].items
             THEN [raised |-> TRUE, sub_schedules |-> sub_schedules]
             ELSE SampleSubSchedules(
                      [sub_schedules EXCEPT ![a.category_key].items[a.item].amount = a.amount],
                      Tail(assignments))

\* the notes section: total * 0.8 and total * 0.2, where 0.8 and 0.2 are the floats
\* nearest to 8/10 and to 2/10
CapitalNote(capital_total) ==
    [note1_capital |-> [opening_balance |-> Times(capital_total, Quotient(8, 10)),
                        additions       |-> Times(capital_total, Quotient(2, 10))]]

\* locals that start from the statements and sub-schedules of the last result
RunFromLastResult ==
    [statements    |-> IF financial_statements = None THEN InitialStatements
                       ELSE [balance_sheet   |-> financial_statements.balance_sheet,
                             profit_and_loss |-> financial_statements.profit_and_loss],
     sub_schedules |-> IF financial_statements = None THEN InitialSubSchedules
                       ELSE financial_statements.sub_schedules,
     category_key  |-> CategoryCode(FINANCIAL_STATEMENT_HIERARCHY[
                                        Len(FINANCIAL_STATEMENT_HIERARCHY)])]

\* the function's locals when the ledger loop starts: the loop that initialises the
\* sub-schedules leaves category_key at the last category of the hierarchy
InitialRun ==
    [statements    |-> InitialStatements,
     sub_schedules |-> InitialSubSchedules,
     category_key  |-> CategoryCode(FINANCIAL_STATEMENT_HIERARCHY[
                                        Len(FINANCIAL_STATEMENT_HIERARCHY)])]

\* the ledger loop of generate_financial_statements
LedgerLoop(ledgers, mapped, sub_mapped) ==
    ProcessLedgers(InitialRun, ledgers, mapped, sub_mapped)

\* generate_financial_statements up to the notes: whether an exception left the
\* function, and the financial_statements dictionary built otherwise.  An empty
\* mapping puts the demonstration data in place of what the loop computed
BuildStatements(ledgers, mapped, sub_mapped) ==
    LET run     == LedgerLoop(ledgers, mapped, sub_mapped)
        sampled == SampleSubSchedules(run.sub_schedules, SampleAmounts)
        balance_sheet   == IF DOMAIN mapped = {} THEN SampleBalanceSheet
                           ELSE run.statements.balance_sheet
        profit_and_loss == IF DOMAIN mapped = {} THEN SampleProfitAndLoss
                           ELSE run.statements.profit_and_loss
        sub_schedules   == IF DOMAIN mapped = {} THEN sampled.sub_schedules
                           ELSE run.sub_schedules
    IN  [raised |-> DOMAIN mapped = {} /\ sampled.raised,
         financial_statements |->
            [balance_sheet   |-> balance_sheet,
             profit_and_loss |-> profit_and_loss,
             sub_schedules   |-> sub_schedules,
             notes           |-> CapitalNote(balance_sheet.liabilities.capital.total)]]

----------------------------------------------------------------------------
(* parse_tally_file *)

\* An export is a sequence of items, each of them one of
\*     [tag |-> t, text |-> s]     <t>s</t>
\*     [open |-> t, NAME |-> s]    <t NAME="s">
\*     [close |-> t]               </t>
\*     [chars |-> s]               s, text between two tags
\* where a text s is a sequence of lexemes: single characters (digits, commas,
\* points, signs, blanks, line breaks) and words.  A text holds none of < > " and a
\* tag name is a word; the entities and stray asterisks that parse_tally_file removes
\* first are not in the exports.

Digits == << "0", "1", "2", "3", "4", "5", "6", "7", "8", "9" >>

IsDigit(c) == \E d \in 1..Len(Digits) : Digits[d] = c

DigitValue(c) == (CHOOSE d \in 1..Len(Digits) : Digits[d] = c) - 1

\* the whitespace of the exports: the blank and the line break
Whitespace == {" ", "\n"}

\* s.strip(): leading and trailing whitespace removed
RECURSIVE Strip(_)
Strip(s) ==
    IF s = << >> THEN s
    ELSE IF Head(s) \in Whitespace THEN Strip(Tail(s))
    ELSE IF s[Len(s)] \in Whitespace THEN Strip(SubSeq(s, 1, Len(s) - 1))
    ELSE s

\* a string that keeps its commas
KeepCommas(s) == s

\* s.replace(',', '')
WithoutCommas(s) == SelectSeq(s, LAMBDA c : c # ",")

\* the value of a string of digits
RECURSIVE DigitsValue(_)
DigitsValue(s) ==
    IF s = << >> THEN 0 ELSE DigitsValue(SubSeq(s, 1, Len(s) - 1)) * 10 + DigitValue(s[Len(s)])

\* 10^n
RECURSIVE Pow10(_)
Pow10(n) == IF n = 0 THEN 1 ELSE 10 * Pow10(n - 1)

\* the positions of the decimal point in a string
PointPositions(s) == {i \in 1..Len(s) : s[i] = "."}

\* the float of a decimal number given by its digits and the number of them after
\* the point: the quotient of the digits and a power of ten, correctly rounded; 0
\* when there is no digit or something else than digits (float raises ValueError)
DecimalValue(digits, places) ==
    IF digits = << >> \/ \E i \in 1..Len(digits) : ~IsDigit(digits[i]) THEN Zero
    ELSE Quotient(DigitsValue(digits), Pow10(places))

\* the float of an unsigned text with its points at the given positions: 0 when
\* there are two points or more
UnsignedValue(unsigned, points) ==
    IF Cardinality(points) > 1 THEN Zero
    ELSE IF points = {} THEN DecimalValue(unsigned, 0)
    ELSE LET point == CHOOSE i \in points : TRUE
         IN  DecimalValue(SubSeq(unsigned, 1, point - 1)
                              \o SubSeq(unsigned, point + 1, Len(unsigned)),
                          Len(unsigned) - point)

\* the text after its sign
Unsigned(s) == IF s # << >> /\ Head(s) \in {"-", "+"} THEN Tail(s) ELSE s

\* the value with the sign of the text
Signed(s, value) == IF s # << >> /\ Head(s) = "-" THEN Minus(value) ELSE value

\* float(s), with 0 when float raises ValueError.  The strings are decimal numbers
\* with an optional sign and an optional point, or not numbers at all
FloatOrZero(s) == Signed(s, UnsignedValue(Unsigned(s), PointPositions(Unsigned(s))))

\* float(amount_str.replace(',', '')) in its try block
ParseAmount(amount_str) == FloatOrZero(WithoutCommas(amount_str))

\* re.findall(r'<TAG>(.*?)</TAG>', content): the texts of the elements with that
\* tag; the dot matches no line break
FindAll(content, tag) ==
    LET hits == SelectSeq(content, LAMBDA e : /\ "text" \in DOMAIN e
                                              /\ e.tag = tag
                                              /\ \A i \in 1..Len(e.text) : e.text[i] # "\n")
    IN  [i \in 1..Len(hits) |-> hits[i].text]

\* a text as a Python string
RECURSIVE NameOf(_)
NameOf(s) == IF s = << >> THEN "" ELSE Head(s) \o NameOf(Tail(s))

\* every name paired with the last amount
LastAmount(amounts, i) == amounts[Len(amounts)]

\* amounts[i]
PairedAmount(amounts, i) == amounts[i]

\* the first strategy: the i-th DSPDISPNAME with the i-th DSPCLDRAMTA
PairUp(names, amounts) ==
    IF names = << >> \/ amounts = << >> THEN << >>
    ELSE [i \in 1..Min(Len(names), Len(amounts)) |->
             [name    |-> NameOf(Strip(names[i])),
              balance |-> ParseAmount(Strip(PairedAmount(amounts, i)))]]

\* names and amounts found and paired up
TagPairLedgers(content) ==
    PairUp(FindAll(content, "DSPDISPNAME"), FindAll(content, "DSPCLDRAMTA"))

\* the tags and texts of an item, one after the other
TokensOf(item) ==
    IF "text" \in DOMAIN item
    THEN << [kind |-> "open", tag |-> item.tag] >>
            \o (IF item.text = << >> THEN << >>
                ELSE << [kind |-> "text", chars |-> item.text] >>)
            \o << [kind |-> "close", tag |-> item.tag] >>
    ELSE IF "open" \in DOMAIN item
    THEN << [kind |-> "open", tag |-> item.open, NAME |-> item.NAME] >>
    ELSE IF "close" \in DOMAIN item
    THEN << [kind |-> "close", tag |-> item.close] >>
    ELSE IF item.chars = << >> THEN << >>
    ELSE << [kind |-> "text", chars |-> item.chars] >>

\* the content as the sequence of its tags and of the texts between them
RECURSIVE Tokens(_)
Tokens(content) ==
    IF content = << >> THEN << >>
    ELSE LET before == Tokens(SubSeq(content, 1, Len(content) - 1))
             tokens == TokensOf(content[Len(content)])
         IN  IF /\ before # << >> /\ tokens # << >>
                /\ before[Len(before)].kind = "text" /\ tokens[1].kind = "text"
             THEN [before EXCEPT ![Len(before)].chars = @ \o tokens[1].chars]
                      \o Tail(tokens)
             ELSE before \o tokens

\* token k is a text
TextOf(tokens, k) ==
    /\ k \in 1..Len(tokens)
    /\ tokens[k].kind = "text"

\* [\d.-]
AmountCharacter(c) == IsDigit(c) \/ c \in {".", "-"}

\* <\w+>([\d.-]+)</\w+> matches at token j
AmountElementAt(tokens, j) ==
    /\ j + 2 <= Len(tokens)
    /\ tokens[j].kind = "open" /\ "NAME" \notin DOMAIN tokens[j]
    /\ TextOf(tokens, j + 1)
    /\ \A i \in 1..Len(tokens[j + 1].chars) : AmountCharacter(tokens[j + 1].chars[i])
    /\ tokens[j + 2].kind = "close"

\* <\w+ NAME="([^"]+)"[^>]*> matches at token i
NamedTagAt(tokens, i) ==
    /\ "NAME" \in DOMAIN tokens[i]
    /\ tokens[i].NAME # << >>

\* .*? matches what is between the tokens i and j: no line break
SameLine(tokens, i, j) ==
    \A k \in (i + 1)..(j - 1) :
        tokens[k].kind = "text" => \A n \in 1..Len(tokens[k].chars) : tokens[k].chars[n] # "\n"

\* re.findall(alt_pattern, content) from token p on: the pairs (name, amount_str),
\* each match starting at the first named tag from which the pattern matches and
\* ending at the first amount element after it
RECURSIVE AttributeMatches(_, _)
AttributeMatches(tokens, p) ==
    LET ends(i) == {j \in (i + 1)..Len(tokens) :
                       AmountElementAt(tokens, j) /\ SameLine(tokens, i, j)}
        starts  == {i \in p..Len(tokens) : NamedTagAt(tokens, i) /\ ends(i) # {}}
    IN  IF starts = {} THEN << >>
        ELSE LET i == CHOOSE i \in starts : \A k \in starts : i <= k
                 j == CHOOSE j \in ends(i) : \A k \in ends(i) : j <= k
             IN  << [name |-> tokens[i].NAME, amount_str |-> tokens[j + 1].chars] >>
                     \o AttributeMatches(tokens, j + 3)

\* the second strategy: a tag with a NAME attribute and the amount element after it;
\* the name is taken as it is
MatchLedgers(matches) ==
    [i \in 1..Len(matches) |->
        [name    |-> NameOf(matches[i].name),
         balance |-> ParseAmount(matches[i].amount_str)]]

\* the matches of the pattern, each with its record
AttributeLedgers(tokens) == MatchLedgers(AttributeMatches(tokens, 1))

\* the characters of a lexeme: the words of the exports, and single characters
Length(lexeme) ==
    LET words == ("Cash" :> 4) @@ ("Sales" :> 5) @@ ("Rent" :> 4) @@ ("Bank" :> 4)
                     @@ ("Tax" :> 3)
    IN  IF lexeme \in DOMAIN words THEN words[lexeme] ELSE 1

\* len(s)
RECURSIVE CharCount(_)
CharCount(s) == IF s = << >> THEN 0 ELSE Length(Head(s)) + CharCount(Tail(s))

\* [\w\s&,.]: everything but the other punctuation
NameCharacter(c) == c \notin {"-", "/", "(", ")", "*", "+", ":"}

\* re.findall(r'<[^>]+>([\w\s&,.]+)</[^>]+>|"([\w\s&,.]+)"', content) from token k
\* on, the group that is not empty of each match: a name-like text between a tag and
\* a closing tag, or else a name-like NAME attribute
RECURSIVE PotentialNames(_, _)
PotentialNames(tokens, k) ==
    IF k > Len(tokens) THEN << >>
    ELSE IF /\ tokens[k].kind # "text"
            /\ TextOf(tokens, k + 1)
            /\ \A i \in 1..Len(tokens[k + 1].chars) : NameCharacter(tokens[k + 1].chars[i])
            /\ k + 2 <= Len(tokens)
            /\ tokens[k + 2].kind = "close"
    THEN << tokens[k + 1].chars >> \o PotentialNames(tokens, k + 3)
    ELSE IF /\ "NAME" \in DOMAIN tokens[k]
            /\ tokens[k].NAME # << >>
            /\ \A i \in 1..Len(tokens[k].NAME) : NameCharacter(tokens[k].NAME[i])
    THEN << tokens[k].NAME >> \o PotentialNames(tokens, k + 1)
    ELSE PotentialNames(tokens, k + 1)

\* -?\d+,?\d*\.?\d* matches the whole text
NumberLike(s) ==
    LET unsigned == IF s # << >> /\ Head(s) = "-" THEN Tail(s) ELSE s
        commas   == {i \in 1..Len(unsigned) : unsigned[i] = ","}
        points   == {i \in 1..Len(unsigned) : unsigned[i] = "."}
    IN  /\ unsigned # << >>
        /\ IsDigit(Head(unsigned))
        /\ \A i \in 1..Len(unsigned) : IsDigit(unsigned[i]) \/ unsigned[i] \in {",", "."}
        /\ Cardinality(commas) <= 1
        /\ Cardinality(points) <= 1
        /\ \A i \in commas : \A j \in points : i < j

\* re.findall(r'>(-?\d+,?\d*\.?\d*)<', content): the number-like texts between two
\* tags
PotentialAmounts(tokens) ==
    LET hits == {k \in 2..(Len(tokens) - 1) :
                    tokens[k].kind = "text" /\ NumberLike(tokens[k].chars)}
        RECURSIVE InOrder(_)
        InOrder(set) ==
            IF set = {} THEN << >>
            ELSE LET k == CHOOSE k \in set : \A n \in set : k <= n
                 IN  << tokens[k].chars >> \o InOrder(set \ {k})
    IN  InOrder(hits)

\* s.isdigit()
IsDigitString(s) == s # << >> /\ \A i \in 1..Len(s) : IsDigit(s[i])

\* the names kept: stripped, not empty, longer than 3 characters and no number
ValidNames(potential_names) ==
    LET stripped   == [i \in 1..Len(potential_names) |-> Strip(potential_names[i])]
        flat_names == SelectSeq(stripped, LAMBDA name : name # << >>)
    IN  SelectSeq(flat_names,
                  LAMBDA name :
                      /\ CharCount(name) > 3
                      /\ ~IsDigitString(SelectSeq(name, LAMBDA c : c \notin {",", "."})))

\* the third strategy: the i-th name-like text with the i-th amount-like text
PairValid(valid_names, potential_amounts) ==
    [i \in 1..Min(Len(valid_names), Len(potential_amounts)) |->
        [name    |-> NameOf(valid_names[i]),
         balance |-> ParseAmount(potential_amounts[i])]]

\* "if potential_names and potential_amounts:" and the pairing in it
PairPotential(potential_names, potential_amounts) ==
    IF potential_names = << >> \/ potential_amounts = << >> THEN << >>
    ELSE PairValid(ValidNames(potential_names), potential_amounts)

\* the potential names and amounts found and paired up
HeuristicLedgers(tokens) ==
    PairPotential(PotentialNames(tokens, 1), PotentialAmounts(tokens))

\* the sample ledgers used when nothing could be extracted
FallbackLedgers ==
    << [name |-> "Capital Account", balance |-> Float(1000000)],
       [name |-> "Fixed Assets", balance |-> Float(800000)],
       [name |-> "Current Assets", balance |-> Float(700000)],
       [name |-> "Reserves and Surplus", balance |-> Float(500000)],
       [name |-> "Revenue", balance |-> Float(2000000)],
       [name |-> "Expenses", balance |-> Float(1500000)] >>

\* re.search(r'<VERSION>(.*?)</VERSION>', content)
TallyVersion(content) ==
    LET found == FindAll(content, "VERSION")
    IN  IF found = << >> THEN "Unknown" ELSE NameOf(found[1])

\* the ledgers of all the strategies together
Mixed(ledgers, others) == ledgers \o others

\* "if not ledgers:": the next strategy is tried when there are no ledgers yet
IfNotLedgers(ledgers, others) == IF ledgers = << >> THEN others ELSE ledgers

\* the second strategy, and the third when the second finds nothing
LaterLedgers(tokens) == IfNotLedgers(AttributeLedgers(tokens), HeuristicLedgers(tokens))

\* a return that tells of sample data whatever was found
ReturnedWithWarning(content, found) ==
    [ledgers       |-> IF found = << >> THEN FallbackLedgers ELSE found,
     tally_version |-> TallyVersion(content),
     warned        |-> TRUE]

\* what is returned when the three strategies found these ledgers: the sample
\* ledgers, with a warning, when there are none
Returned(content, found) ==
    [ledgers       |-> IfNotLedgers(found, FallbackLedgers),
     tally_version |-> TallyVersion(content),
     warned        |-> found = << >>]

\* parse_tally_file(content): the ledgers, the version, and whether st.warning was
\* shown
parse_tally_file(content) ==
    Returned(content, IfNotLedgers(TagPairLedgers(content), LaterLedgers(Tokens(content))))

\* every ledger taken as new
AllLedgersNew(current_ledgers, previous_mappings) == current_ledgers

\* identify_new_ledgers(current_ledgers, previous_mappings)
identify_new_ledgers(current_ledgers, previous_mappings) ==
    SelectSeq(current_ledgers, LAMBDA ledger : ledger.name \notin DOMAIN previous_mappings)

----------------------------------------------------------------------------
(* add_sample_data *)

\* the ledgers of add_sample_data
sample_data ==
  <<
    [name |-> "Land and Building", balance |-> Float(400000)],
    [name |-> "Plant and Machinery", balance |-> Float(300000)],
    [name |-> "Furniture and Fixtures", balance |-> Float(100000)],
    [name |-> "Inventories", balance |-> Float(250000)],
    [name |-> "Sundry Debtors", balance |-> Float(150000)],
    [name |-> "Cash and Bank", balance |-> Float(200000)],
    [name |-> "Capital Account", balance |-> Float(800000)],
    [name |-> "Reserves", balance |-> Float(200000)],
    [name |-> "Secured Loans", balance |-> Float(150000)],
    [name |-> "Sundry Creditors", balance |-> Float(100000)],
    [name |-> "Domestic Sales", balance |-> Float(1200000)],
    [name |-> "Export Sales", balance |-> Float(300000)],
    [name |-> "Interest Income", balance |-> Float(50000)],
    [name |-> "Raw Material Consumed", balance |-> Float(600000)],
    [name |-> "Salaries and Wages", balance |-> Float(300000)],
    [name |-> "Interest Expenses", balance |-> Float(80000)],
    [name |-> "Depreciation", balance |-> Float(120000)],
    [name |-> "Administrative Expenses", balance |-> Float(100000)],
    [name |-> "Selling Expenses", balance |-> Float(80000)]
  >>

\* the mappings add_sample_data installs
sample_mapped_accounts ==
  ("Land and Building" :> <<"BS_", "Fixed", "Assets", " - ", "Fixed", " ", "Assets">> @@
   "Plant and Machinery" :> <<"BS_", "Fixed", "Assets", " - ", "Fixed", " ", "Assets">> @@
   "Furniture and Fixtures" :> <<"BS_", "Fixed", "Assets", " - ", "Fixed", " ", "Assets">> @@
   "Inventories" :> <<"BS_", "Current", "Assets", " - ", "Current", " ", "Assets">> @@
   "Sundry Debtors" :> <<"BS_", "Current", "Assets", " - ", "Current", " ", "Assets">> @@
   "Cash and Bank" :> <<"BS_", "Current", "Assets", " - ", "Current", " ", "Assets">> @@
   "Capital Account" :> <<"BS_", "Capital", " - ", "Capital", " ", "Account">> @@
   "Reserves" :> <<"BS_", "Reserves", " - ", "Reserves", " ", "&", " ", "Surplus">> @@
   "Secured Loans" :> <<"BS_", "Long", "Term", "Loans", " - ", "Long", " ", "Term", " ", "Loans">> @@
   "Sundry Creditors" :> <<"BS_", "Current", "Liabilities", " - ", "Current", " ", "Liabilities">> @@
   "Domestic Sales" :> <<"PL_", "Revenue", " - ", "Revenue", " ", "from", " ", "Operations">> @@
   "Export Sales" :> <<"PL_", "Revenue", " - ", "Revenue", " ", "from", " ", "Operations">> @@
   "Interest Income" :> <<"PL_", "Other", "Income", " - ", "Other", " ", "Income">> @@
   "Raw Material Consumed" :> <<"PL_", "COGS", " - ", "Cost", " ", "of", " ", "Goods", " ", "Sold">> @@
   "Salaries and Wages" :> <<"PL_", "Employee", "Benefits", " - ", "Employee", " ", "Benefits">> @@
   "Interest Expenses" :> <<"PL_", "Finance", "Cost", " - ", "Finance", " ", "Cost">> @@
   "Depreciation" :> <<"PL_", "Depreciation", " - ", "Depreciation">> @@
   "Administrative Expenses" :> <<"PL_", "Other", "Expenses", " - ", "Other", " ", "Expenses">> @@
   "Selling Expenses" :> <<"PL_", "Other", "Expenses", " - ", "Other", " ", "Expenses">>)

\* the sub-schedule mappings add_sample_data installs
sample_sub_schedule_mapping ==
  ("Land and Building" :> <<"BS_", "Fixed", "Assets", "_", "Land", "and", "Buildings", " - ", "Land", " ", "and", " ", "Buildings">> @@
   "Plant and Machinery" :> <<"BS_", "Fixed", "Assets", "_", "Plant", "and", "Machinery", " - ", "Plant", " ", "and", " ", "Machinery">> @@
   "Furniture and Fixtures" :> <<"BS_", "Fixed", "Assets", "_", "Furniture", "and", "Fixtures", " - ", "Furniture", " ", "and", " ", "Fixtures">> @@
   "Inventories" :> <<"BS_", "Current", "Assets", "_", "Inventories", " - ", "Inventories">> @@
   "Sundry Debtors" :> <<"BS_", "Current", "Assets", "_", "Sundry", "Debtors", " - ", "Sundry", " ", "Debtors">> @@
   "Cash and Bank" :> <<"BS_", "Current", "Assets", "_", "Cash", "and", "Bank", "Balances", " - ", "Cash", " ", "and", " ", "Bank", " ", "Balances">> @@
   "Capital Account" :> <<"BS_", "Capital", "Account", "_", "Owners", "Capital", " - ", "Owner's", " ", "Capital">> @@
   "Domestic Sales" :> <<"PL_", "Revenue", "from", "Operations", "_", "Domestic", "Sales", " - ", "Domestic", " ", "Sales">> @@
   "Export Sales" :> <<"PL_", "Revenue", "from", "Operations", "_", "Export", "Sales", " - ", "Export", " ", "Sales">> @@
   "Administrative Expenses" :> <<"PL_", "Other", "Expenses", "_", "Administrative", "Expenses", " - ", "Administrative", " ", "Expenses">> @@
   "Selling Expenses" :> <<"PL_", "Other", "Expenses", "_", "Selling", "and", "Distribution", "Expenses", " - ", "Selling", " ", "and", " ", "Distribution", " ", "Expenses">>)

----------------------------------------------------------------------------
(* The mapping files *)

FileMissing == [state |-> "missing"]

\* a file that json.load rejects
FileCorrupt == [state |-> "corrupt"]

\* a file whose bytes are no text in the encoding open() reads with
FileUndecodable == [state |-> "undecodable"]

\* a file holding json.dump(data)
FileOf(data) == [state |-> "ok", data |-> data]

\* one try/except of load_mappings: the file's dictionary, or {} on FileNotFoundError
\* and on JSONDecodeError
LoadJson(file) == IF file.state = "ok" THEN file.data ELSE EmptyDict

\* json.load(f) raises UnicodeDecodeError, which is neither of the two exceptions
\* the except clauses name
LoadRaises(file) == file.state = "undecodable"

\* load_mappings() raises
load_mappings_raises ==
    LoadRaises(account_mappings_json) \/ LoadRaises(sub_schedule_mappings_json)

\* load_mappings(), when it returns
load_mappings == << LoadJson(account_mappings_json), LoadJson(sub_schedule_mappings_json) >>

----------------------------------------------------------------------------
(* Bounds and inputs *)

\* versions generated in one session
MaxVersions == 2

\* interactions in one session
MaxSteps == 5

\* rows of the mapping table the user edits
Rows == {1}

\* positions, in create_sub_category_options, of the sub-category options the user
\* picks: the first after the sentinel
SubChoices == {2}

\* ledgers in the manual entry form
MaxManualLedgers == 4

\* positions, in create_mapping_options, of the main category options the user picks:
\* Fixed Assets, Cost of Goods Sold
MappingChoices == {2, 11}

\* exports the user pastes
ExportA ==
    << [tag |-> "DSPDISPNAME", text |-> << " ", "Cash", " " >>],
       [tag |-> "DSPCLDRAMTA", text |-> << "1", ",", "2", "0", "0" >>],
       [tag |-> "DSPDISPNAME", text |-> << "Sales" >>],
       [tag |-> "DSPCLDRAMTA", text |-> << "-", "3", "0", "0" >>] >>

ExportB ==
    << [tag |-> "VERSION", text |-> << "6", ".", "6", ".", "3" >>],
       [tag |-> "DSPDISPNAME", text |-> << "Cash" >>],
       [tag |-> "DSPDISPNAME", text |-> << "Rent" >>],
       [tag |-> "DSPCLDRAMTA", text |-> << "7", "0" >>],
       [tag |-> "DSPCLDRAMTA", text |-> << "n", "i", "l" >>],
       [tag |-> "DSPCLDRAMTA", text |-> << "5" >>] >>

ExportEmpty == << >>

\* what the text area may hold: the export, and whether showing the parsed data raises
\* while debug mode is on
Uploads ==
    {[content |-> ExportA, raises |-> FALSE],
     [content |-> ExportB, raises |-> FALSE],
     [content |-> ExportEmpty, raises |-> TRUE]}

\* what the two mapping files, account_mappings.json and sub_schedule_mappings.json,
\* may hold when the session starts
StoredFiles ==
    {<< FileMissing, FileMissing >>,
     << FileCorrupt,
        FileOf("Sales" :> create_sub_category_options(create_mapping_options[9])[2]) >>,
     << FileOf(("Cash" :> create_mapping_options[2]) @@ ("Sales" :> SelectMapping)),
        FileMissing >>,
     << FileUndecodable,
        FileOf("Sales" :> create_sub_category_options(create_mapping_options[9])[2]) >>}

\* names and balances typed into the manual entry form
TypedNames == {"Petty Cash"}

TypedBalances == {Float(5)}

----------------------------------------------------------------------------
(* Session state and widgets *)

\* st.session_state.current_version = None
NoVersion == 0

\* tabs = ["Upload Files", "Account Mapping", "View Statements", "Version History"]
tabs == << "Upload Files", "Account Mapping", "View Statements", "Version History" >>

\* page_size = 15
page_size == 15

\* the ledgers list a tally_data dictionary holds: the manual entry builds its
\* dictionary around st.session_state.manual_ledgers itself, not a copy of it
LedgersOf(data, manual) ==
    IF "ledgers_is" \in DOMAIN data THEN manual ELSE data.ledgers

\* the manual entry form's first content
InitialManualLedgers ==
    << [name |-> "Capital Account", balance |-> Float(1000000)],
       [name |-> "Fixed Assets", balance |-> Float(800000)],
       [name |-> "Current Assets", balance |-> Float(700000)] >>

\* f'New Ledger {n}'
NewLedgerName(n) ==
    << "New Ledger 1", "New Ledger 2", "New Ledger 3", "New Ledger 4", "New Ledger 5",
       "New Ledger 6", "New Ledger 7", "New Ledger 8" >>[n]

\* what a script run reads and writes, but for the version archive and the files
session_state ==
    [mapped_accounts      |-> mapped_accounts,
     sub_schedule_mapping |-> sub_schedule_mapping,
     tally_data           |-> tally_data,
     new_ledgers          |-> new_ledgers,
     manual_ledgers       |-> manual_ledgers,
     pasted_data          |-> pasted_data,
     mapping_widgets      |-> mapping_widgets,
     sub_mapping_widgets  |-> sub_mapping_widgets,
     shown                |-> {}]

\* the session a script run leaves behind
Leave(s) ==
    /\ mapped_accounts' = s.mapped_accounts
    /\ sub_schedule_mapping' = s.sub_schedule_mapping
    /\ tally_data' = s.tally_data
    /\ new_ledgers' = s.new_ledgers
    /\ manual_ledgers' = s.manual_ledgers
    /\ pasted_data' = s.pasted_data
    /\ mapping_widgets' = s.mapping_widgets
    /\ sub_mapping_widgets' = s.sub_mapping_widgets
    /\ ui_msg' = s.shown

\* "Load saved mappings": the module-level statements every script run starts with
LoadSavedMappings(s) ==
    [s EXCEPT !.mapped_accounts = load_mappings[1],
              !.sub_schedule_mapping = load_mappings[2]]

\* st.success, st.warning, st.error, st.exception
Show(s, message) == [s EXCEPT !.shown = @ \cup {message}]

\* d.get(key, default)
Get(d, key, default) == IF key \in DOMAIN d THEN d[key] ELSE default

\* next((i for i, opt in enumerate(options) if opt == value), 0), counted from 1
IndexOf(options, value) ==
    LET hits == {i \in 1..Len(options) : options[i] = value}
    IN  IF hits = {} THEN 1 ELSE CHOOSE i \in hits : \A j \in hits : i <= j

\* what a select box shows in this run: what it showed in the last run when that run
\* drew it with the same options and index, and the option at index otherwise
SelectboxValue(widgets, key, options, signature) ==
    IF key \in DOMAIN widgets /\ widgets[key].signature = signature
    THEN widgets[key].value
    ELSE options[signature.index]

\* no widget changed by the interaction
NoChoice == [widget |-> "none"]

\* the main category select box of the row of ledger_name: what it shows in this
\* run and the index it is drawn with; choice is the select box the user changed
MainSelectbox(s, ledger_name, choice, mapping_options) ==
    LET current_mapping == Get(s.mapped_accounts, ledger_name, SelectMapping)
        signature       == [index |-> IndexOf(mapping_options, current_mapping)]
    IN  [value     |-> IF choice.widget = "mapping" /\ choice.name = ledger_name
                       THEN choice.value
                       ELSE SelectboxValue(s.mapping_widgets, ledger_name,
                                           mapping_options, signature),
         signature |-> signature]

\* the sub-category select box of the row of ledger_name, drawn with the options of
\* the main category current_mapping
SubSelectbox(s, ledger_name, choice, current_mapping, sub_options) ==
    LET current_sub == Get(s.sub_schedule_mapping, ledger_name, SelectSubCategory)
        signature   == [index |-> IndexOf(sub_options, current_sub),
                        options_of |-> current_mapping]
    IN  [value     |-> IF choice.widget = "sub_mapping" /\ choice.name = ledger_name
                       THEN choice.value
                       ELSE SelectboxValue(s.sub_mapping_widgets, ledger_name,
                                           sub_options, signature),
         signature |-> signature]

\* the sub-category column of a row whose main category select box is drawn:
\* current_mapping is the mapping after the select box wrote its value
SubColumn(s, ledger_name, choice, mapping_widget) ==
    LET selected_mapping == mapping_widget.value
        current_mapping  == IF selected_mapping # SelectMapping THEN selected_mapping
                            ELSE Get(s.mapped_accounts, ledger_name, SelectMapping)
    IN  [selected_mapping |-> selected_mapping,
         mapping_widget   |-> mapping_widget,
         sub_drawn        |-> current_mapping # SelectMapping,
         sub_widget       |-> SubSelectbox(s, ledger_name, choice, current_mapping,
                                           create_sub_category_options(current_mapping))]

\* one row of the mapping table, in a run that starts the table with the session s
\* and the widgets of the last run
MappingRow(s, ledger_name, choice) ==
    SubColumn(s, ledger_name, choice,
              MainSelectbox(s, ledger_name, choice, create_mapping_options))

\* what the rows of the mapping table leave in the session: the mappings their
\* select boxes wrote and the select boxes drawn
WrittenBack(s, row) ==
    LET names       == DOMAIN row
        written     == {n \in names : row[n].selected_mapping # SelectMapping}
        with_sub    == {n \in names : row[n].sub_drawn}
        sub_written == {n \in with_sub : row[n].sub_widget.value # SelectSubCategory}
    IN  [s EXCEPT
            !.pasted_data = None,
            !.mapped_accounts =
                [n \in DOMAIN @ \cup written |->
                    IF n \in written THEN row[n].selected_mapping ELSE @[n]],
            !.sub_schedule_mapping =
                [n \in DOMAIN @ \cup sub_written |->
                    IF n \in sub_written THEN row[n].sub_widget.value ELSE @[n]],
            !.mapping_widgets = [n \in names |-> row[n].mapping_widget],
            !.sub_mapping_widgets = [n \in with_sub |-> row[n].sub_widget]]

\* the names of the ledgers in the rows of the mapping table: filtered_ledgers with
\* an empty search box, and the first page of it
CurrentLedgerNames(ledgers) ==
    {ledgers[k].name : k \in 1..Min(page_size, Len(ledgers))}

\* the "Account Mapping" tab up to its last button, with an empty search box and no
\* grouping.  A row reads and writes the entries of its own ledger name only, so
\* the loop over current_ledgers is taken name by name
MappingTab(s, choice) ==
    IF s.tally_data = None
    THEN Show([s EXCEPT !.pasted_data = None, !.mapping_widgets = EmptyDict,
                        !.sub_mapping_widgets = EmptyDict], "warning: no data")
    ELSE WrittenBack(s, [n \in CurrentLedgerNames(LedgersOf(s.tally_data, s.manual_ledgers))
                            |-> MappingRow(s, n, choice)])

\* the upload tab with the parsed data installed: when showing it raises in debug
\* mode, the manual entry form is drawn (and created on its first drawing)
Installed(s, parsed_data) ==
    Show([s EXCEPT
             !.mapping_widgets = EmptyDict,
             !.sub_mapping_widgets = EmptyDict,
             !.tally_data = [ledgers |-> parsed_data.ledgers,
                             tally_version |-> parsed_data.tally_version],
             !.new_ledgers =
                 IF DOMAIN s.mapped_accounts # {}
                 THEN identify_new_ledgers(parsed_data.ledgers, s.mapped_accounts)
                 ELSE @,
             !.manual_ledgers = IF s.pasted_data.raises /\ @ = << >>
                                THEN InitialManualLedgers ELSE @,
             !.shown = @ \cup (IF parsed_data.warned THEN {"warning: sample data"}
                               ELSE {})],
         IF s.pasted_data.raises THEN "error: processing" ELSE "info: ledgers found")

\* the "Upload Files" tab up to the buttons of the manual entry form: what the text
\* area holds is parsed and installed on every run
UploadTab(s) ==
    IF s.pasted_data = None
    THEN [s EXCEPT !.mapping_widgets = EmptyDict, !.sub_mapping_widgets = EmptyDict]
    ELSE Installed(s, parse_tally_file(s.pasted_data.content))

\* the "View Statements" and "Version History" tabs, which draw none of the widgets
\* kept in the model
OtherTab(s) ==
    [s EXCEPT !.pasted_data = None, !.mapping_widgets = EmptyDict,
              !.sub_mapping_widgets = EmptyDict]

\* the code of the selected tab when no button of it is pressed
TabCode(tab, s) ==
    IF tab = "Upload Files" THEN UploadTab(s)
    ELSE IF tab = "Account Mapping" THEN MappingTab(s, NoChoice)
    ELSE OtherTab(s)

\* rerun_app(): st.rerun() raises the exception that restarts the script, inside a
\* try with a bare except.  Either the script runs again from its first line
\* (restarted), or the exception is caught, "Please refresh the page" is shown and
\* the run goes on; s is the session when rerun_app() is called
rerun_app(tab, s, restarted) ==
    IF restarted THEN TabCode(tab, LoadSavedMappings([s EXCEPT !.shown = {}]))
    ELSE Show(s, "warning: refresh")

\* the session a script run on tab starts from: the session as it is when the tab is
\* the selected one, and otherwise what the script run leaves that selecting the tab
\* in the navigation radio brings
At(tab) ==
    IF selected_tab = tab THEN session_state
    ELSE TabCode(tab, LoadSavedMappings(session_state))

\* one more interaction, whose script run gets past "Load saved mappings"
Step == ~load_mappings_raises /\ steps < MaxSteps /\ steps' = steps + 1

\* the session when the first script run has ended: nothing pasted yet
Init ==
    /\ \E files \in StoredFiles : /\ account_mappings_json = files[1]
                                  /\ sub_schedule_mappings_json = files[2]
    /\ mapped_accounts = IF load_mappings_raises THEN EmptyDict ELSE load_mappings[1]
    /\ sub_schedule_mapping = IF load_mappings_raises THEN EmptyDict ELSE load_mappings[2]
    /\ tally_data = None
    /\ new_ledgers = << >>
    /\ versions = << >>
    /\ current_version = NoVersion
    /\ financial_statements = None
    /\ manual_ledgers = << >>
    /\ selected_tab = tabs[1]
    /\ pasted_data = None
    /\ mapping_widgets = EmptyDict
    /\ sub_mapping_widgets = EmptyDict
    /\ ui_msg = IF load_mappings_raises THEN {"exception: UnicodeDecodeError"} ELSE {}
    /\ last = [op |-> "start"]
    /\ steps = 0

----------------------------------------------------------------------------
(* Script runs *)

\* the navigation radio set to another tab
SelectTab(tab) ==
    /\ Step
    /\ tab # selected_tab
    /\ selected_tab' = tab
    /\ Leave(TabCode(tab, LoadSavedMappings(session_state)))
    /\ last' = [op |-> "select_tab", tab |-> tab]
    /\ UNCHANGED << versions, current_version, financial_statements,
                    account_mappings_json, sub_schedule_mappings_json >>

\* data pasted into the text area of the upload tab
PasteData(upload) ==
    /\ Step
    /\ selected_tab' = "Upload Files"
    /\ Leave(UploadTab([LoadSavedMappings(At("Upload Files")) EXCEPT
                            !.pasted_data = upload]))
    /\ last' = [op |-> "extract", upload |-> upload]
    /\ UNCHANGED << versions, current_version, financial_statements,
                    account_mappings_json, sub_schedule_mappings_json >>

\* the sidebar's "Use Sample Data": add_sample_data(), then rerun_app(), then, when
\* the script was not restarted, the selected tab
SidebarUseSampleData(restarted) ==
    LET loaded  == LoadSavedMappings(session_state)
        sampled == Show([loaded EXCEPT
                            !.tally_data = [ledgers |-> sample_data,
                                            tally_version |-> "Sample Data"],
                            !.mapped_accounts = sample_mapped_accounts,
                            !.sub_schedule_mapping = sample_sub_schedule_mapping],
                        "success: sample data")
    IN  /\ Step
        /\ Leave(IF restarted THEN rerun_app(selected_tab, sampled, TRUE)
                 ELSE TabCode(selected_tab, rerun_app(selected_tab, sampled, FALSE)))
        /\ last' = [op |-> "use_sample_data", restarted |-> restarted]
        /\ UNCHANGED << versions, current_version, financial_statements,
                        account_mappings_json, sub_schedule_mappings_json, selected_tab >>

\* the manual entry form is drawn: the upload tab is selected and showing what the
\* text area holds raises
ManualEntryShown ==
    /\ selected_tab = "Upload Files"
    /\ pasted_data # None
    /\ pasted_data.raises

\* the manual entry form's "Use Sample Data"
UseSampleData(restarted) ==
    LET shown   == UploadTab(LoadSavedMappings(session_state))
        sampled == Show([shown EXCEPT
                            !.tally_data = [ledgers |-> sample_data,
                                            tally_version |-> "Sample Data"],
                            !.mapped_accounts = sample_mapped_accounts,
                            !.sub_schedule_mapping = sample_sub_schedule_mapping],
                        "success: sample data")
    IN  /\ Step
        /\ ManualEntryShown
        /\ Leave(rerun_app(selected_tab, sampled, restarted))
        /\ last' = [op |-> "form_use_sample_data", restarted |-> restarted]
        /\ UNCHANGED << versions, current_version, financial_statements,
                        account_mappings_json, sub_schedule_mappings_json, selected_tab >>

\* the name field of row i of the manual entry form, written back into the ledger
SetManualName(i, name) ==
    LET shown == UploadTab(LoadSavedMappings(session_state))
    IN  /\ Step
        /\ ManualEntryShown
        /\ i \in 1..Len(shown.manual_ledgers)
        /\ Leave([shown EXCEPT !.manual_ledgers[i].name = name])
        /\ last' = [op |-> "set_manual_name", row |-> i]
        /\ UNCHANGED << versions, current_version, financial_statements,
                        account_mappings_json, sub_schedule_mappings_json, selected_tab >>

\* the balance field of row i of the manual entry form, written back into the ledger
SetManualBalance(i, balance) ==
    LET shown == UploadTab(LoadSavedMappings(session_state))
    IN  /\ Step
        /\ ManualEntryShown
        /\ i \in 1..Len(shown.manual_ledgers)
        /\ Leave([shown EXCEPT !.manual_ledgers[i].balance = balance])
        /\ last' = [op |-> "set_manual_balance", row |-> i]
        /\ UNCHANGED << versions, current_version, financial_statements,
                        account_mappings_json, sub_schedule_mappings_json, selected_tab >>

\* "Add Another Ledger", then rerun_app(): a restarted script draws the upload tab
\* again, which leaves the session as the handler left it
AddAnotherLedger ==
    LET shown == UploadTab(LoadSavedMappings(session_state))
    IN  /\ Step
        /\ ManualEntryShown
        /\ Len(shown.manual_ledgers) < MaxManualLedgers
        /\ Leave([shown EXCEPT !.manual_ledgers =
                     Append(@, [name |-> NewLedgerName(Len(@) + 1), balance |-> Float(0)])])
        /\ last' = [op |-> "add_another_ledger"]
        /\ UNCHANGED << versions, current_version, financial_statements,
                        account_mappings_json, sub_schedule_mappings_json, selected_tab >>

\* "Use Manual Ledgers", then rerun_app()
UseManualLedgers(restarted) ==
    LET shown == UploadTab(LoadSavedMappings(session_state))
        used  == Show([shown EXCEPT !.tally_data = [ledgers_is |-> "manual_ledgers",
                                                    tally_version |-> "Manual Entry"]],
                      "success: manual ledgers")
    IN  /\ Step
        /\ ManualEntryShown
        /\ Leave(rerun_app(selected_tab, used, restarted))
        /\ last' = [op |-> "use_manual_ledgers", restarted |-> restarted]
        /\ UNCHANGED << versions, current_version, financial_statements,
                        account_mappings_json, sub_schedule_mappings_json, selected_tab >>

\* the ledgers in the rows of the mapping table
TableLedgers ==
    SubSeq(LedgersOf(tally_data, manual_ledgers), 1,
           Min(page_size, Len(LedgersOf(tally_data, manual_ledgers))))

\* the main category dropdown of the ledger in row i set to a category option
SetPrimaryMapping(i, selected_mapping) ==
    /\ Step
    /\ tally_data # None
    /\ i \in 1..Len(TableLedgers)
    /\ selected_tab' = "Account Mapping"
    /\ Leave(MappingTab(LoadSavedMappings(At("Account Mapping")),
                        [widget |-> "mapping", name |-> TableLedgers[i].name,
                         value |-> selected_mapping]))
    /\ last' = [op |-> "set_mapping", row |-> i, value |-> selected_mapping]
    /\ UNCHANGED << versions, current_version, financial_statements,
                    account_mappings_json, sub_schedule_mappings_json >>

\* the sub-category dropdown of the ledger in row i set to the k-th option it offers
SetSubMapping(i, k) ==
    /\ Step
    /\ tally_data # None
    /\ i \in 1..Len(TableLedgers)
    /\ LET shown       == At("Account Mapping")
           ledger_name == TableLedgers[i].name
           sub_options == create_sub_category_options(
                              Get(shown.mapped_accounts, ledger_name, SelectMapping))
       IN  /\ ledger_name \in DOMAIN shown.sub_mapping_widgets
           /\ k \in 1..Len(sub_options)
           /\ Leave(MappingTab(LoadSavedMappings(shown),
                               [widget |-> "sub_mapping", name |-> ledger_name,
                                value |-> sub_options[k]]))
    /\ selected_tab' = "Account Mapping"
    /\ last' = [op |-> "set_sub_mapping", row |-> i]
    /\ UNCHANGED << versions, current_version, financial_statements,
                    account_mappings_json, sub_schedule_mappings_json >>

\* "Save Mapping": save_mappings() is called where the button stands, after the
\* module-level statements and before the mapping table is drawn
SaveMappings ==
    LET loaded == LoadSavedMappings(At("Account Mapping"))
    IN  /\ Step
        /\ tally_data # None
        /\ account_mappings_json' = FileOf(loaded.mapped_accounts)
        /\ sub_schedule_mappings_json' = FileOf(loaded.sub_schedule_mapping)
        /\ selected_tab' = "Account Mapping"
        /\ Leave(MappingTab(Show(loaded, "success: saved"), NoChoice))
        /\ last' = [op |-> "save_mappings"]
        /\ UNCHANGED << versions, current_version, financial_statements >>

\* a version whose id is the number of versions so far, not one more
NewVersionIdFromZero(s, statements) ==
    [id                   |-> Len(versions),
     mapped_accounts      |-> s.mapped_accounts,
     sub_schedule_mapping |-> s.sub_schedule_mapping,
     tally_data           |-> s.tally_data,
     financial_statements |-> statements]

\* "Save current version": the version generate_financial_statements appends
NewVersion(s, statements) ==
    [id                   |-> Len(versions) + 1,
     mapped_accounts      |-> s.mapped_accounts,
     sub_schedule_mapping |-> s.sub_schedule_mapping,
     tally_data           |-> s.tally_data,
     financial_statements |-> statements]

\* the new version put in the place of the last one
ReplaceLastVersion(list, new_version) ==
    IF list = << >> THEN << new_version >> ELSE [list EXCEPT ![Len(list)] = new_version]

\* st.session_state.versions.append(new_version)
AppendVersion(list, new_version) == Append(list, new_version)

\* the pointer set to the number of versions before the append
PointerBeforeAppend(new_version) == Len(versions)

\* st.session_state.current_version = new_version['id']
CommittedPointer(new_version) == new_version.id

\* generate_financial_statements() has built its result from the session drawn: an
\* exception ends the script run with nothing stored; otherwise the version is
\* appended, and rerun_app() leaves the session as it is whether or not the script
\* is restarted
Commit(drawn, built) ==
    IF built.raised
    THEN /\ Leave(Show(drawn, "exception: KeyError"))
         /\ UNCHANGED << versions, current_version, financial_statements >>
    ELSE /\ versions' = AppendVersion(versions,
                                      NewVersion(drawn, built.financial_statements))
         /\ current_version' =
                CommittedPointer(NewVersion(drawn, built.financial_statements))
         /\ financial_statements' = built.financial_statements
         /\ Leave(Show(drawn, "success: generated"))

\* generate_financial_statements() called with the session the mapping table left
Generate(drawn) ==
    Commit(drawn, BuildStatements(LedgersOf(drawn.tally_data, drawn.manual_ledgers),
                                  drawn.mapped_accounts, drawn.sub_schedule_mapping))

\* "Generate Financial Statements", the button under the mapping table
GenerateStatements ==
    /\ Step
    /\ tally_data # None
    /\ Len(versions) < MaxVersions
    /\ selected_tab' = "Account Mapping"
    /\ Generate(MappingTab(LoadSavedMappings(At("Account Mapping")), NoChoice))
    /\ last' = [op |-> "generate"]
    /\ UNCHANGED << account_mappings_json, sub_schedule_mappings_json >>

\* next((v for v in versions if v['id'] == version_id), None)
FindVersion(version_id) ==
    LET hits == {n \in 1..Len(versions) : versions[n].id = version_id}
    IN  IF hits = {} THEN None ELSE versions[CHOOSE n \in hits : \A m \in hits : n <= m]

\* if 'sub_schedule_mapping' in version: ... = version['sub_schedule_mapping'].copy()
RestoredSubMapping(s, version) ==
    IF "sub_schedule_mapping" \in DOMAIN version THEN version.sub_schedule_mapping
    ELSE s.sub_schedule_mapping

\* if 'financial_statements' in version: ... = version['financial_statements']
RestoredStatements(version) ==
    IF "financial_statements" \in DOMAIN version THEN version.financial_statements
    ELSE financial_statements

\* "Load Selected Version" with the id of the selected option, then rerun_app().
\* The select box offers the versions of the archive; an id the archive does not
\* hold stands for a selection that names no version
RestoreVersion(version_id, restarted) ==
    LET here    == OtherTab(LoadSavedMappings(At("Version History")))
        version == FindVersion(version_id)
    IN  /\ Step
        /\ versions # << >>
        /\ selected_tab' = "Version History"
        /\ IF version # None
           THEN /\ current_version' = version.id
                /\ financial_statements' = RestoredStatements(version)
                /\ Leave(rerun_app("Version History",
                             Show([here EXCEPT
                                      !.mapped_accounts = version.mapped_accounts,
                                      !.sub_schedule_mapping =
                                          RestoredSubMapping(here, version)],
                                  "success: loaded"),
                             restarted))
           ELSE /\ Leave(here)
                /\ UNCHANGED << current_version, financial_statements >>
        /\ last' = [op |-> "restore", version_id |-> version_id, restarted |-> restarted]
        /\ UNCHANGED << versions, account_mappings_json, sub_schedule_mappings_json >>

\* the page is loaded again while load_mappings() raises: the script run ends at
\* "Load saved mappings" with the exception shown, and no widget is drawn
RunStopsAtLoad ==
    /\ load_mappings_raises
    /\ steps < MaxSteps
    /\ steps' = steps + 1
    /\ ui_msg' = {"exception: UnicodeDecodeError"}
    /\ last' = [op |-> "run_stopped"]
    /\ UNCHANGED << mapped_accounts, sub_schedule_mapping, tally_data, new_ledgers,
                    versions, current_version, financial_statements, manual_ledgers,
                    account_mappings_json, sub_schedule_mappings_json, selected_tab,
                    pasted_data, mapping_widgets, sub_mapping_widgets >>

Next ==
    \/ RunStopsAtLoad
    \/ \E i \in 1..Len(tabs) : SelectTab(tabs[i])
    \/ \E upload \in Uploads : PasteData(upload)
    \/ \E restarted \in BOOLEAN : SidebarUseSampleData(restarted)
    \/ \E restarted \in BOOLEAN : UseSampleData(restarted)
    \/ \E name \in TypedNames : SetManualName(1, name)
    \/ \E balance \in TypedBalances : SetManualBalance(1, balance)
    \/ AddAnotherLedger
    \/ \E restarted \in BOOLEAN : UseManualLedgers(restarted)
    \/ \E i \in Rows, k \in MappingChoices :
           SetPrimaryMapping(i, create_mapping_options[k])
    \/ \E i \in Rows, k \in SubChoices : SetSubMapping(i, k)
    \/ SaveMappings
    \/ GenerateStatements
    \/ \E version_id \in 1..(Len(versions) + 1), restarted \in BOOLEAN :
           RestoreVersion(version_id, restarted)

Spec == Init /\ [][Next]_vars

----------------------------------------------------------------------------
(* generate_financial_statements on its own.  The function reads the ledgers of
   tally_data and the two mapping dictionaries, which load_mappings() fills with
   whatever the two files hold, and parse_tally_file() repeats a ledger name as
   often as the export does.  SpecAgg starts from sessions that hold such inputs
   and calls the function on them. *)

\* ledgers in one export
MaxLedgers == 3

\* the ledgers of the exports: one name twice, with different balances
LedgerPool ==
    {[name |-> "Cash", balance |-> ParseAmount(<< "0", ".", "1" >>)],
     [name |-> "Cash", balance |-> ParseAmount(<< "0", ".", "2" >>)],
     [name |-> "Sales", balance |-> ParseAmount(<< "-", "0", ".", "3" >>)]}

LedgerLists == UNION {[1..n -> LedgerPool] : n \in 1..MaxLedgers}

\* a mapping whose code starts with neither BS_ nor PL_
UnknownCode == << "XX_", "Misc", " - ", "Misc" >>

\* what account_mappings.json may map "Cash" to: the sentinel, each of the options of
\* the main category dropdown, a code of neither statement
CashMappings == {create_mapping_options[k] : k \in 1..Len(create_mapping_options)}
                    \cup {UnknownCode}

\* what it may map "Sales" to: the sentinel, Revenue from Operations, Cost of Goods Sold
SalesMappings == {SelectMapping, create_mapping_options[9], create_mapping_options[11]}

\* what sub_schedule_mappings.json may map "Cash" to: the first sub-category of Fixed
\* Assets and of Cost of Goods Sold
CashSubMappings ==
    {create_sub_category_options(create_mapping_options[2])[2],
     create_sub_category_options(create_mapping_options[11])[2]}

\* what it may map "Sales" to: the sentinel, the first sub-category of Revenue from
\* Operations
SalesSubMappings ==
    {SelectSubCategory, create_sub_category_options(create_mapping_options[9])[2]}

\* the dictionaries over the names "Cash" and "Sales", either of which may be absent
DictsOf(cash_values, sales_values) ==
    {d \in UNION {[names -> cash_values \cup sales_values] :
                      names \in SUBSET {"Cash", "Sales"}} :
        /\ "Cash" \in DOMAIN d => d["Cash"] \in cash_values
        /\ "Sales" \in DOMAIN d => d["Sales"] \in sales_values}

\* a session on the mapping tab with one interaction left: an export extracted, the
\* mappings as loaded from the two files
InitAgg ==
    /\ mapped_accounts \in DictsOf(CashMappings, SalesMappings)
    /\ sub_schedule_mapping \in DictsOf(CashSubMappings, SalesSubMappings)
    /\ account_mappings_json = FileOf(mapped_accounts)
    /\ sub_schedule_mappings_json = FileOf(sub_schedule_mapping)
    /\ tally_data \in {[ledgers |-> ledgers, tally_version |-> "Unknown"] :
                            ledgers \in LedgerLists}
    /\ new_ledgers = << >>
    /\ versions = << >>
    /\ current_version = NoVersion
    /\ financial_statements = None
    /\ manual_ledgers = << >>
    /\ selected_tab = "Account Mapping"
    /\ pasted_data = None
    /\ mapping_widgets = EmptyDict
    /\ sub_mapping_widgets = EmptyDict
    /\ ui_msg = {}
    /\ last = [op |-> "start"]
    /\ steps = MaxSteps - 1

\* generate_financial_statements() called on the session as it is
generate_financial_statements ==
    /\ Step
    /\ tally_data # None
    /\ Len(versions) < MaxVersions
    /\ Generate(session_state)
    /\ last' = [op |-> "generate"]
    /\ UNCHANGED << account_mappings_json, sub_schedule_mappings_json, selected_tab >>

NextAgg == generate_financial_statements

SpecAgg == InitAgg /\ [][NextAgg]_vars

----------------------------------------------------------------------------
(* The if/elif chains of generate_financial_statements on their own.  The chains
   read the code of a ledger's mapping, which is whatever account_mappings.json
   holds for the name.  SpecRoute starts from sessions whose two ledger names are
   mapped to any of the options and to codes no option has, with the sub-mappings
   of SpecAgg, and calls the function on them. *)

\* a BS_ code that holds a keyword of the PL_ chain and two of the BS_ chain, the
\* later of the chain first
SeveralKeywordsCode ==
    << "BS_", "Revenue", "Reserves", "Capital", " - ", "Reserves", " ", "Capital" >>

\* a PL_ code whose only keyword is one of the BS_ chain
OtherPrefixCode == << "PL_", "Fixed", "Assets", " - ", "Fixed", " ", "Assets" >>

\* what account_mappings.json may map a name to: the sentinel, each of the options
\* of the main category dropdown, a code of neither statement, a code with several
\* keywords, a code with a keyword of the other statement
RouteCodes == {create_mapping_options[k] : k \in 1..Len(create_mapping_options)}
                  \cup {UnknownCode, SeveralKeywordsCode, OtherPrefixCode}

\* the ledgers of the exports: Cash and Sales, and Cash twice before Sales
RouteLedgerLists ==
    {<< [name |-> "Cash", balance |-> ParseAmount(<< "0", ".", "1" >>)],
        [name |-> "Sales", balance |-> ParseAmount(<< "-", "0", ".", "3" >>)] >>,
     << [name |-> "Cash", balance |-> ParseAmount(<< "0", ".", "1" >>)],
        [name |-> "Cash", balance |-> ParseAmount(<< "0", ".", "2" >>)],
        [name |-> "Sales", balance |-> ParseAmount(<< "-", "0", ".", "3" >>)] >>}

\* a session on the mapping tab with one interaction left: an export extracted, the
\* mappings as loaded from the two files
InitRoute ==
    /\ mapped_accounts \in DictsOf(RouteCodes, RouteCodes)
    /\ sub_schedule_mapping \in DictsOf(CashSubMappings, SalesSubMappings)
    /\ account_mappings_json = FileOf(mapped_accounts)
    /\ sub_schedule_mappings_json = FileOf(sub_schedule_mapping)
    /\ tally_data \in {[ledgers |-> ledgers, tally_version |-> "Unknown"] :
                            ledgers \in RouteLedgerLists}
    /\ new_ledgers = << >>
    /\ versions = << >>
    /\ current_version = NoVersion
    /\ financial_statements = None
    /\ manual_ledgers = << >>
    /\ selected_tab = "Account Mapping"
    /\ pasted_data = None
    /\ mapping_widgets = EmptyDict
    /\ sub_mapping_widgets = EmptyDict
    /\ ui_msg = {}
    /\ last = [op |-> "start"]
    /\ steps = MaxSteps - 1

NextRoute == generate_financial_statements

SpecRoute == InitRoute /\ [][NextRoute]_vars

----------------------------------------------------------------------------
(* parse_tally_file on its own.  The upload tab hands the function whatever the
   text area holds; SpecParse starts from a session with nothing pasted and pastes
   an export made of a few items. *)

\* items in one export
MaxItems == 3

\* the items the exports are made of
ExportItems ==
    {[tag |-> "DSPDISPNAME", text |-> << " ", "Cash", " " >>],
     [tag |-> "DSPDISPNAME", text |-> << "Rent" >>],
     [tag |-> "DSPCLDRAMTA", text |-> << "1", ",", "2", "0", "0" >>],
     [tag |-> "DSPCLDRAMTA", text |-> << "n", "i", "l" >>],
     [open |-> "LEDGER", NAME |-> << "Bank" >>],
     [tag |-> "DSPCLDRAMTA", text |-> << "-", "0", ".", "5" >>],
     [tag |-> "AMT", text |-> << "1", ".", "2", ".", "3" >>],
     [tag |-> "NAME", text |-> << "Sales" >>],
     [chars |-> << "\n" >>]}

Contents == UNION {[1..n -> ExportItems] : n \in 0..MaxItems}

\* a session on the upload tab with one interaction left and no mapping files
InitParse ==
    /\ account_mappings_json = FileMissing
    /\ sub_schedule_mappings_json = FileMissing
    /\ mapped_accounts = EmptyDict
    /\ sub_schedule_mapping = EmptyDict
    /\ tally_data = None
    /\ new_ledgers = << >>
    /\ versions = << >>
    /\ current_version = NoVersion
    /\ financial_statements = None
    /\ manual_ledgers = << >>
    /\ selected_tab = tabs[1]
    /\ pasted_data = None
    /\ mapping_widgets = EmptyDict
    /\ sub_mapping_widgets = EmptyDict
    /\ ui_msg = {}
    /\ last = [op |-> "start"]
    /\ steps = MaxSteps - 1

\* an export pasted into the text area: the script run parses it
ExtractPasted == \E content \in Contents : PasteData([content |-> content, raises |-> FALSE])

NextParse == ExtractPasted

SpecParse == InitParse /\ [][NextParse]_vars

----------------------------------------------------------------------------
(* Properties *)

\* the version a restore was asked for, or None
Asked == FindVersion(last.version_id)

\* the last script run was "Load Selected Version" on a version of the archive
Restored == last.op = "restore" /\ Asked # None

\* the last script run was generate_financial_statements, and it stored its result
Generated == last.op = "generate" /\ "success: generated" \in ui_msg

\* the ledgers generate_financial_statements read
ActiveLedgers == LedgersOf(tally_data, manual_ledgers)

\* C1: version ids are 1-based, strictly increasing and never reused: after any
\* sequence of actions the i-th version of the archive has id i, and no two
\* versions share an id
VersionIdsArePositions ==
    /\ \A i \in 1..Len(versions) : versions[i].id = i
    /\ \A i, j \in 1..Len(versions) : versions[i].id = versions[j].id => i = j

\* two commits, then a mapping set
VersionIdsArePositionsWitness ==
    /\ Len(versions) = 2
    /\ versions[2].id = 2
    /\ last.op = "set_mapping"

\* every version of the archive is, after the step, where it was and what it was
PriorVersionsStay ==
    /\ Len(versions') >= Len(versions)
    /\ \A i \in 1..Len(versions) :
          /\ versions'[i].id = versions[i].id
          /\ versions'[i].mapped_accounts = versions[i].mapped_accounts
          /\ versions'[i].sub_schedule_mapping = versions[i].sub_schedule_mapping
          /\ versions'[i].financial_statements = versions[i].financial_statements

\* C2: prior versions are never mutated or removed: after any single action every
\* version that existed before it still exists at the same position, with the same
\* id, primary-mapping snapshot, sub-mapping snapshot and aggregation result
PriorVersionsKept == [][PriorVersionsStay]_vars

\* a first version restored when a second one, with another mapping, was committed
PriorVersionsKeptWitness ==
    /\ Len(versions) = 2
    /\ versions[1].mapped_accounts # versions[2].mapped_accounts
    /\ last.op = "restore"
    /\ last.version_id = 1

\* after a restore the active mappings are those of the version
RestoredMappingsActive ==
    Restored => /\ mapped_accounts = Asked.mapped_accounts
                /\ sub_schedule_mapping = Asked.sub_schedule_mapping

\* a mapping set in the table changes no archived mapping
ArchivedMappingsStay ==
    steps' # steps /\ last'.op \in {"set_mapping", "set_sub_mapping"} =>
        \A i \in 1..Len(versions) :
            /\ versions'[i].mapped_accounts = versions[i].mapped_accounts
            /\ versions'[i].sub_schedule_mapping = versions[i].sub_schedule_mapping

RestoreInstallsLedgers ==
    Restored => /\ ActiveLedgers = LedgersOf(Asked.tally_data, manual_ledgers)
                /\ financial_statements = Asked.financial_statements

PointerNamesAVersion ==
    \/ current_version = NoVersion
    \/ \E i \in 1..Len(versions) : versions[i].id = current_version

\* the pointer is the new id after a commit and the restored id after a restore of
\* a version of the archive; a step that changes it changes no version's content
PointerFollows ==
    /\ Len(versions') > Len(versions) =>
           current_version' = versions'[Len(versions')].id
    /\ steps' # steps /\ last'.op = "restore" /\ FindVersion(last'.version_id) # None =>
           current_version' = last'.version_id
    /\ current_version' # current_version =>
           \A i \in 1..Len(versions) :
               /\ versions'[i] = versions[i]
               /\ LedgersOf(versions'[i].tally_data, manual_ledgers')
                      = LedgersOf(versions[i].tally_data, manual_ledgers)

\* C7: in every reachable state the current-version pointer is unset or the id of
\* a version in the archive; it is the newly allocated id right after a commit and
\* the restored id right after a successful restore, and changing it never changes
\* a version's content
CurrentVersionPointer == []PointerNamesAVersion /\ [][PointerFollows]_vars

\* the second of two versions was committed, then the first restored
CurrentVersionPointerWitness ==
    /\ Len(versions) = 2
    /\ current_version = 1
    /\ last.op = "restore"
    /\ ui_msg # {}

\* the 14 categories: the branches of the two chains
Categories ==
    {BalanceSheetBranches[i] : i \in 1..Len(BalanceSheetBranches)}
        \cup {ProfitAndLossBranches[i] : i \in 1..Len(ProfitAndLossBranches)}

\* the ledger is routed to the category
Routed(ledger, category) ==
    /\ ledger.name \in DOMAIN mapped_accounts
    /\ mapped_accounts[ledger.name] # SelectMapping
    /\ TakenBranch(BeforeDash(mapped_accounts[ledger.name])) = category

\* the sum of the balances of the ledgers of a list, added up from 0 in the order
\* of the list
RECURSIVE SumOfBalances(_)
SumOfBalances(ledgers) ==
    IF ledgers = << >> THEN Zero
    ELSE Plus(SumOfBalances(SubSeq(ledgers, 1, Len(ledgers) - 1)),
              ledgers[Len(ledgers)].balance)

\* C8: with a non-empty primary mapping, after generateStatements each of the 14
\* category totals is the sum of the balances of exactly the ledger records routed
\* to the category, each record counted once per occurrence
TotalsAreSumsOfRouted ==
    Generated /\ DOMAIN mapped_accounts # {} =>
        \A category \in Categories :
            financial_statements[category.statement][category.side][category.category].total
                = SumOfBalances(SelectSeq(ActiveLedgers,
                                          LAMBDA ledger : Routed(ledger, category)))

\* two records of one name, both routed to Fixed Assets and both added
TotalsAreSumsOfRoutedWitness ==
    /\ Generated
    /\ \E i, j \in 1..Len(ActiveLedgers) :
          /\ i < j
          /\ ActiveLedgers[i].name = ActiveLedgers[j].name
          /\ ActiveLedgers[i].balance # ActiveLedgers[j].balance
          /\ Routed(ActiveLedgers[i], BalanceSheetBranches[1])
          /\ financial_statements.balance_sheet.assets.fixed_assets.total
                 = Plus(ActiveLedgers[i].balance, ActiveLedgers[j].balance)

\* the ledger has no primary mapping, or the sentinel
Unmapped(ledger) ==
    \/ ledger.name \notin DOMAIN mapped_accounts
    \/ mapped_accounts[ledger.name] = SelectMapping

\* the names in the contributing-ledger lists of the sub-schedules
Contributors(sub_schedules) ==
    UNION {UNION {{sub_schedules[category_key].items[item].ledgers[k].name :
                      k \in 1..Len(sub_schedules[category_key].items[item].ledgers)} :
                  item \in DOMAIN sub_schedules[category_key].items} :
           category_key \in DOMAIN sub_schedules}

\* what generate_financial_statements builds from the ledgers but those of a kind
BuiltWithout(Kind(_)) ==
    BuildStatements(SelectSeq(ActiveLedgers, LAMBDA ledger : ~Kind(ledger)),
                    mapped_accounts, sub_schedule_mapping).financial_statements

\* C9: a ledger record whose name has no entry in the primary mapping, or whose
\* primary mapping is the sentinel, contributes to no category total and to no
\* sub-schedule slot, neither amount nor contributing-ledger list, even when a
\* sub-mapping exists for its name: the result is the result without the record
UnmappedContributeNothing ==
    Generated =>
        /\ financial_statements = BuiltWithout(Unmapped)
        /\ \A k \in 1..Len(ActiveLedgers) :
               Unmapped(ActiveLedgers[k]) =>
                   ActiveLedgers[k].name \notin Contributors(financial_statements.sub_schedules)

\* a record with a sub-mapping and the sentinel as its mapping, after a record that
\* a sub-schedule slot lists
UnmappedContributeNothingWitness ==
    /\ Generated
    /\ Contributors(financial_statements.sub_schedules) # {}
    /\ \E k \in 2..Len(ActiveLedgers) :
          /\ ActiveLedgers[k].name \in DOMAIN mapped_accounts
          /\ mapped_accounts[ActiveLedgers[k].name] = SelectMapping
          /\ ActiveLedgers[k].name \in DOMAIN sub_schedule_mapping
          /\ sub_schedule_mapping[ActiveLedgers[k].name] # SelectSubCategory

\* the ledger's mapping is a code that no branch of the chains takes
Dropped(ledger) ==
    /\ ~Unmapped(ledger)
    /\ TakenBranch(BeforeDash(mapped_accounts[ledger.name])) = None

\* C10: a ledger whose non-sentinel primary mapping code has neither the BS_ nor
\* the PL_ prefix, or no recognised keyword for its prefix, is silently dropped: it
\* changes no category total and no sub-schedule slot amount or contributing-ledger
\* list, whether or not it has a sub-mapping and wherever it stands in the list
DroppedContributeNothing ==
    Generated => financial_statements = BuiltWithout(Dropped)

\* C11: aggregation always completes: for every ledger list and every content of
\* the primary mapping and the sub-mapping, generateStatements finishes without
\* raising and produces a result and a new version
AggregationCompletes ==
    [][steps' # steps /\ last'.op = "generate" =>
          /\ "exception: KeyError" \notin ui_msg'
          /\ financial_statements' # None
          /\ Len(versions') = Len(versions) + 1]_vars

\* the ledger records of a list in another order
Permuted(ledgers, order) == [i \in 1..Len(ledgers) |-> ledgers[order[i]]]

\* the 14 category totals of a statement tree
CategoryTotals(statements) ==
    [category \in Categories |->
        statements[category.statement][category.side][category.category].total]

\* C12: category totals are order-independent: for fixed mappings and sub-mappings,
\* generateStatements on any permutation of the ledger list completes exactly when
\* the run on the list itself completed, and yields the same 14 category totals
TotalsOrderIndependent ==
    last.op = "generate" =>
        \A order \in Permutations(1..Len(ActiveLedgers)) :
            LET built == BuildStatements(Permuted(ActiveLedgers, order),
                                         mapped_accounts, sub_schedule_mapping)
            IN  /\ built.raised <=> "exception: KeyError" \in ui_msg
                /\ ~built.raised =>
                      CategoryTotals(built.financial_statements)
                          = CategoryTotals(financial_statements)

\* the slot the ledgers of this name are collected by: they are routed to the
\* category with code category_key and have a sub-mapping other than the sentinel,
\* whose code without the prefix category_key_ is sub_key; None for other ledgers
SlotOf(name) ==
    IF \/ name \notin DOMAIN mapped_accounts
       \/ name \notin DOMAIN sub_schedule_mapping
    THEN None
    ELSE IF \/ mapped_accounts[name] = SelectMapping
            \/ sub_schedule_mapping[name] = SelectSubCategory
    THEN None
    ELSE LET branch == TakenBranch(BeforeDash(mapped_accounts[name]))
         IN  IF branch = None THEN None
             ELSE [category_key |-> branch.category_key,
                   sub_key |-> Remove(BeforeDash(sub_schedule_mapping[name]),
                                      branch.category_key \o << "_" >>)]

\* the names of the active ledgers
ActiveNames == {ActiveLedgers[i].name : i \in 1..Len(ActiveLedgers)}

\* the contributing-list entries {name, balance} of a list of ledgers
Entries(ledgers) ==
    [i \in 1..Len(ledgers) |-> [name |-> ledgers[i].name, balance |-> ledgers[i].balance]]

\* C13: a routed ledger with a non-sentinel sub-mapping whose code, after the code
\* prefix of the resolved category is removed, is the key of a pre-initialised slot
\* has its balance added to the amount of that slot and {name, balance} appended to
\* the slot's contributing list: the list holds these ledgers in extraction order,
\* and the amount is the sum of what was appended
SlotsCollectLedgers ==
    Generated /\ DOMAIN mapped_accounts # {} =>
        /\ \A category_key \in DOMAIN InitialSubSchedules :
              \A sub_key \in DOMAIN InitialSubSchedules[category_key].items :
                  LET slot == financial_statements.sub_schedules[category_key].items[sub_key]
                  IN  slot.amount = SumOfBalances(slot.ledgers)
        /\ \A name \in ActiveNames :
              LET slot_of == SlotOf(name)
              IN  /\ slot_of # None
                  /\ slot_of.sub_key
                         \in DOMAIN InitialSubSchedules[slot_of.category_key].items
                  => LET same == {n \in ActiveNames : SlotOf(n) = slot_of}
                     IN  SelectSeq(financial_statements.sub_schedules[slot_of.category_key]
                                       .items[slot_of.sub_key].ledgers,
                                   LAMBDA e : e.name \in same)
                           = Entries(SelectSeq(ActiveLedgers, LAMBDA l : l.name \in same))

\* two ledgers with different balances collected by one pre-initialised slot
SlotsCollectLedgersWitness ==
    /\ Generated
    /\ \E category_key \in DOMAIN InitialSubSchedules :
          \E sub_key \in DOMAIN InitialSubSchedules[category_key].items :
              LET slot == financial_statements.sub_schedules[category_key].items[sub_key]
              IN  /\ Len(slot.ledgers) = 2
                  /\ slot.ledgers[1] # slot.ledgers[2]
                  /\ \A i \in 1..2 :
                        SlotOf(slot.ledgers[i].name)
                            = [category_key |-> category_key, sub_key |-> sub_key]
                  /\ slot.amount = Plus(slot.ledgers[1].balance, slot.ledgers[2].balance)

\* the slot of a name is none of the slots initialised from the hierarchy
SlotToCreate(name) ==
    /\ SlotOf(name) # None
    /\ SlotOf(name).sub_key
           \notin DOMAIN InitialSubSchedules[SlotOf(name).category_key].items

\* C14: a routed ledger whose sub-mapping does not resolve to an existing slot of
\* the resolved category creates the slot under that category, with the ledger's
\* balance as amount and the ledger as only entry, and later ledgers with the same
\* sub key accumulate into the created slot: the slot exists, its amount is the sum
\* of the balances of its contributing list, and the list holds the ledgers that
\* resolve to it in extraction order
CreatedSlotsKeepBalances ==
    Generated /\ DOMAIN mapped_accounts # {} =>
        \A name \in ActiveNames :
            SlotToCreate(name) =>
                LET slot_of == SlotOf(name)
                    items   == financial_statements.sub_schedules[slot_of.category_key].items
                    same    == {n \in ActiveNames : SlotOf(n) = slot_of}
                IN  /\ slot_of.sub_key \in DOMAIN items
                    /\ items[slot_of.sub_key].amount
                           = SumOfBalances(items[slot_of.sub_key].ledgers)
                    /\ SelectSeq(items[slot_of.sub_key].ledgers, LAMBDA e : e.name \in same)
                           = Entries(SelectSeq(ActiveLedgers, LAMBDA l : l.name \in same))

\* a slot created by one ledger and added to by a later one, with another balance
CreatedSlotsKeepBalancesWitness ==
    /\ Generated
    /\ \E name \in ActiveNames :
          /\ SlotToCreate(name)
          /\ LET slot == financial_statements.sub_schedules[SlotOf(name).category_key]
                             .items[SlotOf(name).sub_key]
             IN  /\ Len(slot.ledgers) = 2
                 /\ slot.ledgers[1].balance # slot.ledgers[2].balance
                 /\ slot.amount = Plus(slot.ledgers[1].balance, slot.ledgers[2].balance)

\* C15: with an empty primary mapping generateStatements yields the fixed
\* demonstration dataset, whatever the ledgers and the sub-mapping are: a result is
\* there and its 14 totals are those of the demonstration
DemonstrationDataset ==
    last.op = "generate" /\ DOMAIN mapped_accounts = {} =>
        /\ financial_statements # None
        /\ financial_statements.balance_sheet.assets.fixed_assets.total = Float(800000)
        /\ financial_statements.balance_sheet.assets.investments.total = Float(300000)
        /\ financial_statements.balance_sheet.assets.current_assets.total = Float(700000)
        /\ financial_statements.balance_sheet.liabilities.capital.total = Float(1000000)
        /\ financial_statements.balance_sheet.liabilities.reserves.total = Float(500000)
        /\ financial_statements.balance_sheet.liabilities.long_term_loans.total
               = Float(200000)
        /\ financial_statements.balance_sheet.liabilities.current_liabilities.total
               = Float(100000)
        /\ financial_statements.profit_and_loss.income.revenue.total = Float(2000000)
        /\ financial_statements.profit_and_loss.income.other_income.total = Float(100000)
        /\ financial_statements.profit_and_loss.expenses.cogs.total = Float(1000000)
        /\ financial_statements.profit_and_loss.expenses.employee_benefits.total
               = Float(500000)
        /\ financial_statements.profit_and_loss.expenses.finance_costs.total = Float(100000)
        /\ financial_statements.profit_and_loss.expenses.depreciation.total = Float(200000)
        /\ financial_statements.profit_and_loss.expenses.other_expenses.total
               = Float(300000)

\* C16: the Capital Account note of a generated result is computed from the final
\* capital total: opening balance = total * 0.8 and additions = total * 0.2, so that
\* opening balance + additions = total
CapitalNoteSplitsTotal ==
    Generated =>
        LET total == financial_statements.balance_sheet.liabilities.capital.total
            note  == financial_statements.notes.note1_capital
        IN  /\ note.opening_balance = Times(total, Quotient(8, 10))
            /\ note.additions = Times(total, Quotient(2, 10))
            /\ Plus(note.opening_balance, note.additions) = total

\* C17: regeneration is idempotent up to version identity: a generateStatements
\* that directly follows a generateStatements on the same ledgers, mapping and
\* sub-mapping appends a second version whose totals, sub-schedule amounts,
\* contributing lists and notes are those of the first; the two differ in the id
\* only, the second being the first plus one (and in the timestamp, which the
\* versions of the model do not carry)
RegenerationIdempotent ==
    [][/\ Generated
       /\ steps' # steps
       /\ last'.op = "generate"
       /\ Len(versions') = Len(versions) + 1
       /\ versions # << >>
       /\ versions'[Len(versions')].mapped_accounts
              = versions[Len(versions)].mapped_accounts
       /\ versions'[Len(versions')].sub_schedule_mapping
              = versions[Len(versions)].sub_schedule_mapping
       /\ LedgersOf(versions'[Len(versions')].tally_data, manual_ledgers')
              = LedgersOf(versions[Len(versions)].tally_data, manual_ledgers)
       => /\ versions'[Len(versions)] = versions[Len(versions)]
          /\ versions'[Len(versions')]
                 = [versions[Len(versions)] EXCEPT !.id = @ + 1]]_vars

\* two versions in a row from the same inputs, with a total that is not 0
RegenerationIdempotentWitness ==
    /\ Generated
    /\ Len(versions) = 2
    /\ versions[1].mapped_accounts = versions[2].mapped_accounts
    /\ versions[1].sub_schedule_mapping = versions[2].sub_schedule_mapping
    /\ versions[1].tally_data = versions[2].tally_data
    /\ versions[1].financial_statements = versions[2].financial_statements
    /\ \E category \in Categories :
          CategoryTotals(versions[2].financial_statements)[category] # Zero

\* the last script run parsed what the text area holds
Extracted == last.op = "extract" /\ tally_data # None

\* the export the last script run parsed
Pasted == last.upload.content

\* what the strategies after the tag-pair strategy give for the export
LaterStrategies ==
    LET attribute == AttributeLedgers(Tokens(Pasted))
        heuristic == HeuristicLedgers(Tokens(Pasted))
    IN  IF attribute # << >> THEN attribute
        ELSE IF heuristic # << >> THEN heuristic
        ELSE FallbackLedgers

\* C18: extraction is a cascade of four strategies that stops at the first
\* productive one: the tag-pair strategy; else the attribute pattern; else the
\* heuristic pairing; else the built-in sample ledgers.  The ledgers are those of
\* one strategy, never of two
StrategiesCascade ==
    Extracted =>
        LET tag_pair == TagPairLedgers(Pasted)
        IN  tally_data.ledgers = IF tag_pair # << >> THEN tag_pair ELSE LaterStrategies

\* an export on which three strategies are productive, extracted by the first
StrategiesCascadeWitness ==
    /\ Extracted
    /\ TagPairLedgers(Pasted) # << >>
    /\ AttributeLedgers(Tokens(Pasted)) # << >>
    /\ HeuristicLedgers(Tokens(Pasted)) # << >>
    /\ tally_data.ledgers = TagPairLedgers(Pasted)
    /\ tally_data.ledgers # AttributeLedgers(Tokens(Pasted))

\* C19: the tag-pair strategy truncates: n name tags and m amount tags give exactly
\* min(n, m) records, the i-th name with the i-th amount; with n = 0 or m = 0 the
\* strategy gives no record and extraction falls through to the later strategies
TagPairTruncates ==
    Extracted =>
        LET names   == FindAll(Pasted, "DSPDISPNAME")
            amounts == FindAll(Pasted, "DSPCLDRAMTA")
        IN  IF names # << >> /\ amounts # << >>
            THEN /\ Len(tally_data.ledgers) = Min(Len(names), Len(amounts))
                 /\ \A i \in 1..Len(tally_data.ledgers) :
                        /\ tally_data.ledgers[i].name = NameOf(Strip(names[i]))
                        /\ tally_data.ledgers[i].balance = ParseAmount(Strip(amounts[i]))
            ELSE tally_data.ledgers = LaterStrategies

\* more names than amounts: the name without an amount gives no record
TagPairTruncatesWitness ==
    /\ Extracted
    /\ Len(FindAll(Pasted, "DSPDISPNAME")) = 2
    /\ Len(FindAll(Pasted, "DSPCLDRAMTA")) = 1
    /\ Len(tally_data.ledgers) = 1
    /\ tally_data.ledgers[1].name = "Cash"

\* a decimal number: an optional sign, digits, and at most one point among them
Numeric(s) ==
    LET unsigned == IF s # << >> /\ Head(s) \in {"-", "+"} THEN Tail(s) ELSE s
    IN  /\ \E i \in 1..Len(unsigned) : IsDigit(unsigned[i])
        /\ \A i \in 1..Len(unsigned) : IsDigit(unsigned[i]) \/ unsigned[i] = "."
        /\ Cardinality({i \in 1..Len(unsigned) : unsigned[i] = "."}) <= 1

\* the float nearest to a decimal number
NumericValue(s) ==
    LET digits == SelectSeq(s, IsDigit)
        point  == {i \in 1..Len(s) : s[i] = "."}
        places == IF point = {} THEN 0 ELSE Len(s) - (CHOOSE i \in point : TRUE)
        value  == Quotient(DigitsValue(digits), Pow10(places))
    IN  IF Head(s) = "-" THEN Minus(value) ELSE value

\* the balance the claim gives an amount text: its value once the commas are
\* removed, 0 when what remains is no number
BalanceOf(amount_str) ==
    LET s == SelectSeq(amount_str, LAMBDA c : c # ",")
    IN  IF Numeric(s) THEN NumericValue(s) ELSE Zero

\* C20: amount parsing never fails extraction, in every strategy: every amount the
\* strategy pairs with a name gives a record, whose balance is the number the text
\* is once its commas are removed, and 0 when the remaining text is not numeric
AmountsNeverFail ==
    Extracted =>
        LET names     == FindAll(Pasted, "DSPDISPNAME")
            amounts   == FindAll(Pasted, "DSPCLDRAMTA")
            matches   == AttributeMatches(Tokens(Pasted), 1)
            valid     == ValidNames(PotentialNames(Tokens(Pasted), 1))
            potential == PotentialAmounts(Tokens(Pasted))
            ledgers   == tally_data.ledgers
        IN  IF names # << >> /\ amounts # << >>
            THEN /\ Len(ledgers) = Min(Len(names), Len(amounts))
                 /\ \A i \in 1..Len(ledgers) :
                        ledgers[i].balance = BalanceOf(Strip(amounts[i]))
            ELSE IF matches # << >>
            THEN /\ Len(ledgers) = Len(matches)
                 /\ \A i \in 1..Len(ledgers) :
                        ledgers[i].balance = BalanceOf(matches[i].amount_str)
            ELSE IF valid # << >> /\ potential # << >>
            THEN /\ Len(ledgers) = Min(Len(valid), Len(potential))
                 /\ \A i \in 1..Len(ledgers) :
                        ledgers[i].balance = BalanceOf(potential[i])
            ELSE ledgers = FallbackLedgers

\* an amount text that is no number: its record is there, with balance 0
AmountsNeverFailWitness ==
    /\ Extracted
    /\ FindAll(Pasted, "DSPDISPNAME") # << >>
    /\ FindAll(Pasted, "DSPCLDRAMTA") = << << "n", "i", "l" >> >>
    /\ Len(tally_data.ledgers) = 1
    /\ tally_data.ledgers[1].balance = Zero

\* the ledgers the claim names for a degraded extraction
SampleLedgerSet ==
    << [name |-> "Capital Account", balance |-> Float(1000000)],
       [name |-> "Fixed Assets", balance |-> Float(800000)],
       [name |-> "Current Assets", balance |-> Float(700000)],
       [name |-> "Reserves and Surplus", balance |-> Float(500000)],
       [name |-> "Revenue", balance |-> Float(2000000)],
       [name |-> "Expenses", balance |-> Float(1500000)] >>

\* none of the three strategies gives a record for the export
NothingFound(tokens) ==
    /\ TagPairLedgers(Pasted) = << >>
    /\ AttributeLedgers(tokens) = << >>
    /\ HeuristicLedgers(tokens) = << >>

\* C21: degraded extraction: when the three strategies give no record, the
\* extraction still completes, its ledgers are exactly the six sample ledgers
\* (Capital Account 1000000, Fixed Assets 800000, Current Assets 700000, Reserves
\* and Surplus 500000, Revenue 2000000, Expenses 1500000) and the warning is shown;
\* the warning is shown in no other case
DegradedExtraction ==
    last.op = "extract" =>
        /\ tally_data # None
        /\ "error: processing" \notin ui_msg
        /\ IF NothingFound(Tokens(Pasted))
           THEN /\ tally_data.ledgers = SampleLedgerSet
                /\ "warning: sample data" \in ui_msg
           ELSE "warning: sample data" \notin ui_msg

\* an export with a name and no amount: nothing is found, the sample ledgers are
\* extracted and the warning is shown
DegradedExtractionWitness ==
    /\ Extracted
    /\ FindAll(Pasted, "DSPDISPNAME") # << >>
    /\ NothingFound(Tokens(Pasted))
    /\ Len(tally_data.ledgers) = 6
    /\ tally_data.ledgers[5].name = "Revenue"
    /\ "warning: sample data" \in ui_msg

\* the options of a list as Python strings
Strings(options) == [i \in 1..Len(options) |-> NameOf(options[i])]

\* the entries of a list
Members(options) == {options[i] : i \in 1..Len(options)}

\* what create_mapping_options() returns, as Python strings: the sentinel, then
\* "{code} - {category}" for the 14 categories in declared order, where code is BS_
\* or PL_ followed by the category without its whitespace
ExpectedCategoryOptions ==
    << "Select mapping...",
       "BS_FixedAssets - Fixed Assets",
       "BS_Investments - Investments",
       "BS_CurrentAssets - Current Assets",
       "BS_CapitalAccount - Capital Account",
       "BS_ReservesandSurplus - Reserves and Surplus",
       "BS_LongTermLoans - Long Term Loans",
       "BS_CurrentLiabilities - Current Liabilities",
       "PL_RevenuefromOperations - Revenue from Operations",
       "PL_OtherIncome - Other Income",
       "PL_CostofGoodsSold - Cost of Goods Sold",
       "PL_EmployeeBenefits - Employee Benefits",
       "PL_FinanceCost - Finance Cost",
       "PL_Depreciation - Depreciation",
       "PL_OtherExpenses - Other Expenses" >>

\* what create_sub_category_options returns for an input that names a category, by
\* the name of the category: the sentinel, then "{categoryCode}_{sub-category without whitespace} -
\* {sub-category}" for the sub-categories of the category in declared order
ExpectedSubCategoryOptions ==
    ("Fixed Assets" :>
        << "Select sub-category...",
           "BS_FixedAssets_LandandBuildings - Land and Buildings",
           "BS_FixedAssets_PlantandMachinery - Plant and Machinery",
           "BS_FixedAssets_FurnitureandFixtures - Furniture and Fixtures",
           "BS_FixedAssets_Vehicles - Vehicles",
           "BS_FixedAssets_ComputerEquipment - Computer Equipment",
           "BS_FixedAssets_OtherFixedAssets - Other Fixed Assets" >>)
    @@
    ("Investments" :>
        << "Select sub-category...",
           "BS_Investments_Long-termInvestments - Long-term Investments",
           "BS_Investments_Short-termInvestments - Short-term Investments",
           "BS_Investments_InvestmentinProperties - Investment in Properties",
           "BS_Investments_OtherInvestments - Other Investments" >>)
    @@
    ("Current Assets" :>
        << "Select sub-category...",
           "BS_CurrentAssets_Inventories - Inventories",
           "BS_CurrentAssets_SundryDebtors - Sundry Debtors",
           "BS_CurrentAssets_CashandBankBalances - Cash and Bank Balances",
           "BS_CurrentAssets_LoansandAdvances - Loans and Advances",
           "BS_CurrentAssets_Deposits - Deposits",
           "BS_CurrentAssets_OtherCurrentAssets - Other Current Assets" >>)
    @@
    ("Capital Account" :>
        << "Select sub-category...",
           "BS_CapitalAccount_Owner'sCapital - Owner's Capital",
           "BS_CapitalAccount_Partner'sCapital - Partner's Capital",
           "BS_CapitalAccount_Drawings - Drawings",
           "BS_CapitalAccount_OtherCapitalItems - Other Capital Items" >>)
    @@
    ("Reserves and Surplus" :>
        << "Select sub-category...",
           "BS_ReservesandSurplus_GeneralReserve - General Reserve",
           "BS_ReservesandSurplus_RevaluationReserve - Revaluation Reserve",
           "BS_ReservesandSurplus_RetainedEarnings - Retained Earnings",
           "BS_ReservesandSurplus_OtherReserves - Other Reserves" >>)
    @@
    ("Long Term Loans" :>
        << "Select sub-category...",
           "BS_LongTermLoans_SecuredLoans - Secured Loans",
           "BS_LongTermLoans_UnsecuredLoans - Unsecured Loans",
           "BS_LongTermLoans_TermLoans - Term Loans",
           "BS_LongTermLoans_OtherLong-termLoans - Other Long-term Loans" >>)
    @@
    ("Current Liabilities" :>
        << "Select sub-category...",
           "BS_CurrentLiabilities_SundryCreditors - Sundry Creditors",
           "BS_CurrentLiabilities_OutstandingExpenses - Outstanding Expenses",
           "BS_CurrentLiabilities_StatutoryLiabilities - Statutory Liabilities",
           "BS_CurrentLiabilities_AdvancesfromCustomers - Advances from Customers",
           "BS_CurrentLiabilities_OtherCurrentLiabilities - Other Current Liabilities" >>)
    @@
    ("Revenue from Operations" :>
        << "Select sub-category...",
           "PL_RevenuefromOperations_DomesticSales - Domestic Sales",
           "PL_RevenuefromOperations_ExportSales - Export Sales",
           "PL_RevenuefromOperations_ServiceIncome - Service Income",
           "PL_RevenuefromOperations_OtherOperationalIncome - Other Operational Income" >>)
    @@
    ("Other Income" :>
        << "Select sub-category...",
           "PL_OtherIncome_InterestIncome - Interest Income",
           "PL_OtherIncome_DividendIncome - Dividend Income",
           "PL_OtherIncome_RentalIncome - Rental Income",
           "PL_OtherIncome_MiscellaneousIncome - Miscellaneous Income" >>)
    @@
    ("Cost of Goods Sold" :>
        << "Select sub-category...",
           "PL_CostofGoodsSold_RawMaterialConsumed - Raw Material Consumed",
           "PL_CostofGoodsSold_DirectExpenses - Direct Expenses",
           "PL_CostofGoodsSold_PurchaseofStock-in-Trade - Purchase of Stock-in-Trade",
           "PL_CostofGoodsSold_ChangesinInventories - Changes in Inventories" >>)
    @@
    ("Employee Benefits" :>
        << "Select sub-category...",
           "PL_EmployeeBenefits_SalariesandWages - Salaries and Wages",
           "PL_EmployeeBenefits_BonusandIncentives - Bonus and Incentives",
           "PL_EmployeeBenefits_StaffWelfareExpenses - Staff Welfare Expenses",
           "PL_EmployeeBenefits_OtherEmployeeCosts - Other Employee Costs" >>)
    @@
    ("Finance Cost" :>
        << "Select sub-category...",
           "PL_FinanceCost_InterestExpenses - Interest Expenses",
           "PL_FinanceCost_BankCharges - Bank Charges",
           "PL_FinanceCost_OtherFinancialCharges - Other Financial Charges" >>)
    @@
    ("Depreciation" :>
        << "Select sub-category...",
           "PL_Depreciation_DepreciationonFixedAssets - Depreciation on Fixed Assets",
           "PL_Depreciation_Amortization - Amortization",
           "PL_Depreciation_OtherDepreciation - Other Depreciation" >>)
    @@
    ("Other Expenses" :>
        << "Select sub-category...",
           "PL_OtherExpenses_AdministrativeExpenses - Administrative Expenses",
           "PL_OtherExpenses_SellingandDistributionExpenses - Selling and Distribution Expenses",
           "PL_OtherExpenses_RentandUtilities - Rent and Utilities",
           "PL_OtherExpenses_RepairsandMaintenance - Repairs and Maintenance",
           "PL_OtherExpenses_TravelandConveyance - Travel and Conveyance",
           "PL_OtherExpenses_LegalandProfessionalFees - Legal and Professional Fees",
           "PL_OtherExpenses_Insurance - Insurance",
           "PL_OtherExpenses_MiscellaneousExpenses - Miscellaneous Expenses" >>)

\* what create_mapping_options() returns is the sentinel and the 14 entries
OptionsAreTheExpected ==
    /\ Len(create_mapping_options) = 1 + Len(FINANCIAL_STATEMENT_HIERARCHY)
    /\ Strings(create_mapping_options) = ExpectedCategoryOptions

\* C22: create_mapping_options() returns, on every call, the same sequence of 1 + 14
\* entries: the sentinel "Select mapping..." first, then one "{code} - {category}"
\* entry per category of the taxonomy in declared order, with code BS_ or PL_
\* followed by the category without whitespace; the main category select boxes of
\* every script run are drawn from it
CategoryOptionsLaw ==
    /\ OptionsAreTheExpected
    /\ \A n \in DOMAIN mapping_widgets :
          /\ mapping_widgets[n].signature.index \in 1..Len(ExpectedCategoryOptions)
          /\ NameOf(mapping_widgets[n].value) \in Members(ExpectedCategoryOptions)

\* a mapping table whose select box shows the eleventh entry, chosen by the user
CategoryOptionsLawWitness ==
    /\ last.op = "set_mapping"
    /\ \E n \in DOMAIN mapping_widgets :
          NameOf(mapping_widgets[n].value) = "PL_CostofGoodsSold - Cost of Goods Sold"

\* inputs of create_sub_category_options: the empty string, the sentinel, a code
\* that names no category, and the options of the main category dropdown
SubOptionInputs ==
    {<< >>, SelectMapping, UnknownCode} \cup Members(create_mapping_options)

\* the category an input names: what follows " - ", or the input when it holds
\* no " - "
NamedCategory(main_category) ==
    NameOf(IF HasDash(main_category) THEN AfterDash(main_category) ELSE main_category)

\* what the claim gives for an input
ExpectedFor(main_category) ==
    IF /\ main_category # SelectMapping
       /\ NamedCategory(main_category) \in DOMAIN ExpectedSubCategoryOptions
    THEN ExpectedSubCategoryOptions[NamedCategory(main_category)]
    ELSE << "Select sub-category..." >>

\* what create_sub_category_options returns for each of the inputs is what the
\* claim gives
SubOptionsAreTheExpected ==
    \A m \in SubOptionInputs : Strings(create_sub_category_options(m)) = ExpectedFor(m)

\* C23: create_sub_category_options returns only the sentinel
\* "Select sub-category..." for the empty string, the category sentinel and an input
\* that names no category; for an option that names a category it returns the
\* sentinel followed by one "{categoryCode}_{sub-category without whitespace} -
\* {sub-category}" entry per sub-category of that category, in declared order, also
\* for every mapping of the session; the sub-category select boxes of every script
\* run are drawn from it
SubCategoryOptionsLaw ==
    /\ SubOptionsAreTheExpected
    /\ \A n \in DOMAIN mapped_accounts :
          Strings(create_sub_category_options(mapped_accounts[n]))
              = ExpectedFor(mapped_accounts[n])
    /\ \A n \in DOMAIN sub_mapping_widgets :
          NameOf(sub_mapping_widgets[n].value)
              \in Members(ExpectedFor(sub_mapping_widgets[n].signature.options_of))

\* a sub-category select box drawn for Cost of Goods Sold shows the first
\* sub-category, chosen by the user
SubCategoryOptionsLawWitness ==
    /\ last.op = "set_sub_mapping"
    /\ \E n \in DOMAIN sub_mapping_widgets :
          /\ NameOf(sub_mapping_widgets[n].signature.options_of)
                 = "PL_CostofGoodsSold - Cost of Goods Sold"
          /\ NameOf(sub_mapping_widgets[n].value)
                 = "PL_CostofGoodsSold_RawMaterialConsumed - Raw Material Consumed"

\* the category codes of the taxonomy, in declared order, as Python strings
CategoryCodes ==
    [i \in 1..Len(FINANCIAL_STATEMENT_HIERARCHY) |->
        NameOf(CategoryCode(FINANCIAL_STATEMENT_HIERARCHY[i]))]

\* the codes of the sub-categories of the i-th category: what stands before " - "
\* in the entries create_sub_category_options gives for its option
SubCategoryCodesOf(i) ==
    LET options == create_sub_category_options(create_mapping_options[i + 1])
    IN  [k \in 1..(Len(options) - 1) |-> NameOf(BeforeDash(options[k + 1]))]

\* the sub-category codes of the whole taxonomy, in declared order
RECURSIVE SubCategoryCodesFrom(_)
SubCategoryCodesFrom(i) ==
    IF i > Len(FINANCIAL_STATEMENT_HIERARCHY) THEN << >>
    ELSE SubCategoryCodesOf(i) \o SubCategoryCodesFrom(i + 1)

SubCategoryCodes == SubCategoryCodesFrom(1)

\* no entry of the sequence occurs twice
Distinct(codes) == \A i, j \in 1..Len(codes) : codes[i] = codes[j] => i = j

\* the number of sub-categories the taxonomy declares
DeclaredSubCategories ==
    LET RECURSIVE Count(_)
        Count(i) == IF i > Len(FINANCIAL_STATEMENT_HIERARCHY) THEN 0
                    ELSE Len(FINANCIAL_STATEMENT_HIERARCHY[i].sub_categories) + Count(i + 1)
    IN  Count(1)

\* no two of the derived codes of the taxonomy are equal
DerivedCodesDiffer ==
    /\ Len(CategoryCodes) = 14
    /\ Len(SubCategoryCodes) = DeclaredSubCategories
    /\ Distinct(CategoryCodes)
    /\ Distinct(SubCategoryCodes)
    /\ Members(CategoryCodes) \cap Members(SubCategoryCodes) = {}

\* C24: the derived codes are unique across the taxonomy: no two categories have the
\* same category code, no two sub-categories have the same sub-category code, and
\* no sub-category code is a category code; and the taxonomy is never modified:
\* the sub-schedules of the statements of the session and of every archived
\* version have the categories of the taxonomy, each with every sub-category the
\* taxonomy declares for it
CodesUnique ==
    /\ DerivedCodesDiffer
    /\ \A n \in 1..Len(versions) :
          /\ DOMAIN versions[n].financial_statements.sub_schedules = DOMAIN InitialSubSchedules
          /\ \A key \in DOMAIN InitialSubSchedules :
                DOMAIN InitialSubSchedules[key].items
                    \subseteq DOMAIN versions[n].financial_statements.sub_schedules[key].items
    /\ financial_statements # None =>
          DOMAIN financial_statements.sub_schedules = DOMAIN InitialSubSchedules

\* statements were generated and archived, and their sub-schedules hold the 14
\* categories under distinct codes
CodesUniqueWitness ==
    /\ Generated
    /\ Len(versions) = 2
    /\ Cardinality(DOMAIN versions[2].financial_statements.sub_schedules) = 14
    /\ Cardinality(Members(SubCategoryCodes)) = 63

\* what the claim gives for a store: the map its file holds, and the empty map when
\* the file is missing or what it holds is no valid serialisation
MapOf(file) == IF file.state = "ok" THEN file.data ELSE EmptyDict

\* C25: loading the persisted mappings never fails: when the session starts each
\* store is the map of its own file, the empty map for a file that is missing or
\* holds no valid serialisation, whatever the other file holds, and no script run
\* shows an exception of the load
LoadNeverFails ==
    /\ "exception: UnicodeDecodeError" \notin ui_msg
    /\ last.op = "start" =>
          /\ mapped_accounts = MapOf(account_mappings_json)
          /\ sub_schedule_mapping = MapOf(sub_schedule_mappings_json)

\* the interactions the claim lets change the active mappings
MappingInteractions ==
    {"set_mapping", "set_sub_mapping", "restore", "use_sample_data", "form_use_sample_data"}

\* C26: the mapping files are read into the session at its start only and written
\* only by "Save Mapping": once the session has started the active primary mapping
\* and sub-mapping change only when a mapping is set in the table, a version is
\* restored or the sample data is loaded, so that mappings set or restored and not
\* yet saved are still active after any later interaction; and the files change
\* only in save_mappings
UnsavedMappingsStay ==
    [][/\ last'.op \notin MappingInteractions =>
             /\ mapped_accounts' = mapped_accounts
             /\ sub_schedule_mapping' = sub_schedule_mapping
       /\ last'.op # "save_mappings" =>
             /\ account_mappings_json' = account_mappings_json
             /\ sub_schedule_mappings_json' = sub_schedule_mappings_json]_vars

\* the priority order of the claim: the keywords of the BS_ codes and of the PL_
\* codes, each with the category total it routes to
RoutingOrder ==
    << [prefix |-> "BS_", keyword |-> << "Fixed", "Assets" >>,
        total |-> << "balance_sheet", "assets", "fixed_assets" >>],
       [prefix |-> "BS_", keyword |-> << "Investments" >>,
        total |-> << "balance_sheet", "assets", "investments" >>],
       [prefix |-> "BS_", keyword |-> << "Current", "Assets" >>,
        total |-> << "balance_sheet", "assets", "current_assets" >>],
       [prefix |-> "BS_", keyword |-> << "Capital" >>,
        total |-> << "balance_sheet", "liabilities", "capital" >>],
       [prefix |-> "BS_", keyword |-> << "Reserves" >>,
        total |-> << "balance_sheet", "liabilities", "reserves" >>],
       [prefix |-> "BS_", keyword |-> << "Long", "Term", "Loans" >>,
        total |-> << "balance_sheet", "liabilities", "long_term_loans" >>],
       [prefix |-> "BS_", keyword |-> << "Current", "Liabilities" >>,
        total |-> << "balance_sheet", "liabilities", "current_liabilities" >>],
       [prefix |-> "PL_", keyword |-> << "Revenue" >>,
        total |-> << "profit_and_loss", "income", "revenue" >>],
       [prefix |-> "PL_", keyword |-> << "Other", "Income" >>,
        total |-> << "profit_and_loss", "income", "other_income" >>],
       [prefix |-> "PL_", keyword |-> << "COGS" >>,
        total |-> << "profit_and_loss", "expenses", "cogs" >>],
       [prefix |-> "PL_", keyword |-> << "Employee", "Benefits" >>,
        total |-> << "profit_and_loss", "expenses", "employee_benefits" >>],
       [prefix |-> "PL_", keyword |-> << "Finance", "Cost" >>,
        total |-> << "profit_and_loss", "expenses", "finance_costs" >>],
       [prefix |-> "PL_", keyword |-> << "Depreciation" >>,
        total |-> << "profit_and_loss", "expenses", "depreciation" >>],
       [prefix |-> "PL_", keyword |-> << "Other", "Expenses" >>,
        total |-> << "profit_and_loss", "expenses", "other_expenses" >>] >>

\* the place in RoutingOrder the claim routes a mapping to: the earliest keyword of
\* the code's own prefix that the code holds; 0 when there is none
RouteOf(main_mapping) ==
    LET category_code == BeforeDash(main_mapping)
        matches == {i \in 1..Len(RoutingOrder) :
                       /\ category_code # << >>
                       /\ Head(category_code) = RoutingOrder[i].prefix
                       /\ Contains(category_code, RoutingOrder[i].keyword)}
    IN  IF matches = {} THEN 0 ELSE CHOOSE i \in matches : \A j \in matches : i <= j

\* the place the claim routes a ledger to; 0 for a ledger that is not mapped
LedgerRoute(ledger) ==
    IF Unmapped(ledger) THEN 0 ELSE RouteOf(mapped_accounts[ledger.name])

\* the category total at a place of RoutingOrder
TotalAt(statements, i) ==
    statements[RoutingOrder[i].total[1]][RoutingOrder[i].total[2]]
              [RoutingOrder[i].total[3]].total

\* C27: category routing is first-match-wins in a fixed priority order: a mapped
\* ledger is added to at most one category total, that of the earliest keyword of
\* its code's prefix that the code holds, in the order FixedAssets, Investments,
\* CurrentAssets, Capital, Reserves, LongTermLoans, CurrentLiabilities for BS_ and
\* Revenue, OtherIncome, COGS, EmployeeBenefits, FinanceCost, Depreciation,
\* OtherExpenses for PL_; a keyword of the other prefix never routes.  Each total is
\* the sum of the ledgers routed so
RoutingFirstMatchWins ==
    Generated /\ DOMAIN mapped_accounts # {} =>
        \A i \in 1..Len(RoutingOrder) :
            TotalAt(financial_statements, i)
                = SumOfBalances(SelectSeq(ActiveLedgers,
                                          LAMBDA ledger : LedgerRoute(ledger) = i))

\* a ledger whose code holds Revenue, Reserves and Capital after BS_ is added to the
\* capital total alone
RoutingFirstMatchWinsWitness ==
    /\ Generated
    /\ \E k \in 1..Len(ActiveLedgers) :
          /\ ~Unmapped(ActiveLedgers[k])
          /\ mapped_accounts[ActiveLedgers[k].name] = SeveralKeywordsCode
    /\ TotalAt(financial_statements, 4) # Zero
    /\ TotalAt(financial_statements, 5) = Zero
    /\ TotalAt(financial_statements, 8) = Zero

\* the ledger's primary mapping is the option
MappedTo(ledger, option) ==
    /\ ledger.name \in DOMAIN mapped_accounts
    /\ mapped_accounts[ledger.name] = option

\* C28: the options of the taxonomy and the routing agree: a ledger whose primary
\* mapping is one of the 14 options of create_mapping_options() has its balance
\* added to the total of the category the option names; with mappings taken from
\* the options, the total of the k-th category is the sum of the ledgers mapped to
\* the k-th option
OptionsRouteToTheirCategory ==
    /\ Generated
    /\ DOMAIN mapped_accounts # {}
    /\ \A name \in DOMAIN mapped_accounts :
          mapped_accounts[name] \in Members(create_mapping_options)
    => \A k \in 1..Len(FINANCIAL_STATEMENT_HIERARCHY) :
          TotalAt(financial_statements, k)
              = SumOfBalances(SelectSeq(ActiveLedgers,
                    LAMBDA ledger : MappedTo(ledger, create_mapping_options[k + 1])))

\* every slot of the sub-schedules of a result has as amount the sum of the balances
\* of its contributing list, 0 for an empty list
Provenance(statements) ==
    \A category_key \in DOMAIN statements.sub_schedules :
        \A item \in DOMAIN statements.sub_schedules[category_key].items :
            LET slot == statements.sub_schedules[category_key].items[item]
            IN  /\ slot.amount = SumOfBalances(slot.ledgers)
                /\ slot.ledgers = << >> => slot.amount = Zero

\* C29: in every result of generate_financial_statements, the one of the session
\* and the one stored in any version, the amount of each sub-schedule slot is the
\* sum of the balances of the slot's contributing ledgers, and a slot with no
\* contributing ledger has amount 0
AmountsHaveProvenance ==
    /\ financial_statements # None => Provenance(financial_statements)
    /\ \A n \in 1..Len(versions) : Provenance(versions[n].financial_statements)

\* a stored result with a slot of two contributing ledgers and a slot of none
AmountsHaveProvenanceWitness ==
    /\ Generated
    /\ Len(versions) = 1
    /\ \E category_key \in DOMAIN versions[1].financial_statements.sub_schedules :
          LET items == versions[1].financial_statements.sub_schedules[category_key].items
          IN  \E item, other \in DOMAIN items :
                 /\ Len(items[item].ledgers) = 2
                 /\ items[item].ledgers[1].balance # items[item].ledgers[2].balance
                 /\ items[item].amount # Zero
                 /\ items[other].ledgers = << >>

\* the extracted ledger records whose name has no entry in the primary mapping
UnmappedExtracted(ledgers, mapped) ==
    SelectSeq(ledgers, LAMBDA ledger : ledger.name \notin DOMAIN mapped)

\* C30: after every extract the new-ledger list of the session is exactly the
\* just-extracted ledger records whose name has no entry in the primary mapping, in
\* extraction order
NewLedgersAreUnmappedExtracted ==
    Extracted => new_ledgers = UnmappedExtracted(tally_data.ledgers, mapped_accounts)

\* C30, amended: after an extract made while the primary mapping is not empty the
\* new-ledger list is exactly the just-extracted ledger records whose name has no
\* entry in the primary mapping, in extraction order; an extract made while the
\* primary mapping is empty leaves the list as it was
NewLedgersWhenMapped ==
    [][steps' # steps /\ last'.op = "extract" /\ tally_data' # None =>
          new_ledgers' = IF DOMAIN mapped_accounts' # {}
                         THEN UnmappedExtracted(tally_data'.ledgers, mapped_accounts')
                         ELSE new_ledgers]_vars

\* an extract with Cash mapped and Rent not: Rent alone is new
NewLedgersWhenMappedWitness ==
    /\ Extracted
    /\ "Cash" \in DOMAIN mapped_accounts
    /\ Len(tally_data.ledgers) = 2
    /\ Len(new_ledgers) = 1
    /\ new_ledgers[1].name = "Rent"
====
